---- MODULE Spec2Model ----
(***************************************************************************)
(* Ontario Trails PWA: the service worker's request interception layer     *)
(* (src/service-worker.js).  The model covers the request classifier, the  *)
(* versioned cache partitions, trimCache, the five retrieval strategies    *)
(* and the install / activate lifecycle.                                   *)
(*                                                                         *)
(* Every `await` of the source is a suspension point, so every handler is  *)
(* a small process whose program counter sits at the awaited operation;    *)
(* one action performs the awaited operation together with the synchronous *)
(* code that follows it up to the next await.                              *)
(***************************************************************************)
EXTENDS Integers, Sequences, FiniteSets, TLC

\* ------------------------------------------------------------------------
\* Bounds of the model
\* ------------------------------------------------------------------------
\* request handlers (fetch events) that may be in flight at the same time
MaxInFlight == 2
\* distinct response bodies the network may serve for one URL
MaxVer == 2
\* ------------------------------------------------------------------------
\* Strings.  A string the source inspects with a regular expression is a
\* sequence of one-character strings.
\* ------------------------------------------------------------------------
UpperChars ==
  <<"A","B","C","D","E","F","G","H","I","J","K","L","M",
    "N","O","P","Q","R","S","T","U","V","W","X","Y","Z">>

LowerChars ==
  <<"a","b","c","d","e","f","g","h","i","j","k","l","m",
    "n","o","p","q","r","s","t","u","v","w","x","y","z">>

LowerOf ==
  [c \in {UpperChars[i] : i \in 1..26} |->
     LowerChars[CHOOSE i \in 1..26 : UpperChars[i] = c]]

\* the /i flag: characters are compared after case folding
Lower(c) == IF c \in DOMAIN LowerOf THEN LowerOf[c] ELSE c

\* the literal lit occurs in s at position i (case-insensitively)
MatchAt(s, i, lit) ==
  /\ i >= 1
  /\ i + Len(lit) - 1 <= Len(s)
  /\ \A j \in 1..Len(lit) : Lower(s[i + j - 1]) = Lower(lit[j])

\* the group (\?|#|$) right after a literal that matched at i
EndOrQuery(s, i, lit) ==
  \/ i + Len(lit) = Len(s) + 1
  \/ /\ i + Len(lit) <= Len(s)
     /\ s[i + Len(lit)] \in {"?", "#"}

DigitChars == <<"0","1","2","3","4","5","6","7","8","9">>

RECURSIVE Digits(_)
Digits(n) ==
  IF n < 10 THEN <<DigitChars[n + 1]>>
  ELSE Digits(n \div 10) \o <<DigitChars[(n % 10) + 1]>>

\* ------------------------------------------------------------------------
\* URLs.  A request URL is a pair (family, number); new URL(req.url) gives
\* its origin, host and pathname.
\* ------------------------------------------------------------------------
SelfOrigin == "https://trails.example"

SelfHost == <<"t","r","a","i","l","s",".","e","x","a","m","p","l","e">>

U(f, k) == [fam |-> f, n |-> k]

NoUrl == U("none", 0)

Host(u) ==
  CASE u.fam = "osm" ->
         <<"a",".","t","i","l","e",".","o","p","e","n","s","t","r","e","e","t","m","a","p",".","o","r","g">>
    [] u.fam = "lio" ->
         <<"w","s",".","l","i","o",".","l","r","c",".","g","o","v",".","o","n",".","c","a">>
    [] u.fam = "lioservices" ->
         <<"w","s",".","l","i","o","s","e","r","v","i","c","e","s",".","l","r","c",".","g","o","v",".","o","n",".","c","a">>
    [] u.fam = "arcgis" ->
         <<"s","e","r","v","e","r",".","a","r","c","g","i","s","o","n","l","i","n","e",".","c","o","m">>
    [] u.fam = "unpkg" ->
         <<"u","n","p","k","g",".","c","o","m">>
    [] u.fam = "nominatim" ->
         <<"n","o","m","i","n","a","t","i","m",".","o","p","e","n","s","t","r","e","e","t","m","a","p",".","o","r","g">>
    [] u.fam = "cdnjs" ->
         <<"c","d","n",".","e","x","a","m","p","l","e",".","o","r","g">>
    [] u.fam = "osmapex" ->
         <<"t","i","l","e",".","o","p","e","n","s","t","r","e","e","t","m","a","p",".","o","r","g">>
    [] u.fam = "geoservices" ->
         <<"w","s",".","g","e","o","s","e","r","v","i","c","e","s",".","l","r","c",".","g","o","v",".","o","n",".","c","a">>
    [] u.fam = "unpkgtail" ->
         <<"n","o","t","u","n","p","k","g",".","c","o","m">>
    [] u.fam = "liohead" ->
         <<"w","s",".","l","i","o",".","l","r","c",".","g","o","v",".","o","n",".","c","a",".","m","i","r","r","o","r",".","e","x","a","m","p","l","e">>
    [] OTHER -> SelfHost

Origin(u) ==
  CASE u.fam = "osm" -> "https://a.tile.openstreetmap.org"
    [] u.fam = "lio" -> "https://ws.lio.lrc.gov.on.ca"
    [] u.fam = "lioservices" -> "https://ws.lioservices.lrc.gov.on.ca"
    [] u.fam = "arcgis" -> "https://server.arcgisonline.com"
    [] u.fam = "unpkg" -> "https://unpkg.com"
    [] u.fam = "nominatim" -> "https://nominatim.openstreetmap.org"
    [] u.fam = "cdnjs" -> "https://cdn.example.org"
    [] u.fam = "osmapex" -> "https://tile.openstreetmap.org"
    [] u.fam = "geoservices" -> "https://ws.geoservices.lrc.gov.on.ca"
    [] u.fam = "unpkgtail" -> "https://notunpkg.com"
    [] u.fam = "liohead" -> "https://ws.lio.lrc.gov.on.ca.mirror.example"
    [] OTHER -> SelfOrigin

Pathname(u) ==
  CASE u.fam = "root" -> <<"/">>
    [] u.fam = "index" -> <<"/","i","n","d","e","x",".","h","t","m","l">>
    [] u.fam = "appcss" -> <<"/","a","p","p",".","c","s","s">>
    [] u.fam = "appjs" -> <<"/","a","p","p",".","j","s">>
    [] u.fam = "manifest" ->
         <<"/","m","a","n","i","f","e","s","t",".","w","e","b","m","a","n","i","f","e","s","t">>
    [] u.fam = "otn" -> <<"/","O","T","N",".","g","e","o","j","s","o","n">>
    [] u.fam = "fish" ->
         <<"/","F","i","s","h","_","S","t","o","c","k","i","n","g","_","D","a","t","a",".","g","e","o","j","s","o","n">>
    [] u.fam = "access" ->
         <<"/","F","i","s","h","i","n","g","_","A","c","c","e","s","s","_","P","o","i","n","t",".","g","e","o","j","s","o","n">>
    [] u.fam = "img" -> <<"/","i","m","g","/">> \o Digits(u.n) \o <<".","p","n","g">>
    [] u.fam = "dat" -> <<"/","d","a","t","a","/">> \o Digits(u.n) \o <<".","g","e","o","j","s","o","n">>
    [] u.fam = "logo" -> <<"/","L","O","G","O",".","P","N","G">>
    [] u.fam = "json" -> <<"/","a","p","i","/","t","r","a","i","l","s",".","j","s","o","n">>
    [] u.fam = "page" -> <<"/","t","r","a","i","l","s","/">> \o Digits(u.n)
    [] u.fam = "moved" -> <<"/","v","e","n","d","o","r","/","l","e","a","f","l","e","t",".","j","s">>
    [] u.fam = "geojs" -> <<"/","d","a","t","a","/","o","t","n",".","g","e","o","j","s","o","n",".","j","s">>
    [] u.fam = "jsgeo" -> <<"/","a","p","p",".","j","s","/","o","t","n",".","g","e","o","j","s","o","n">>
    [] u.fam = "cdnjs" -> <<"/","l","i","b",".","j","s">>
    [] u.fam = "unpkg" -> <<"/","l","e","a","f","l","e","t",".","j","s">>
    [] u.fam = "nominatim" -> <<"/","s","e","a","r","c","h">>
    [] OTHER -> <<"/","t","i","l","e","/">> \o Digits(u.n) \o <<".","p","n","g">>

\* ------------------------------------------------------------------------
\* Request classifier
\* ------------------------------------------------------------------------
isSameOrigin(url) == Origin(url) = SelfOrigin

GeojsonExt == <<".","g","e","o","j","s","o","n">>

\* /\.geojson(\?|#|$)/i.test(url.pathname): somewhere in the pathname a dot
\* starts the extension, which is followed by ?, # or the end
isDataURL(url) ==
  /\ isSameOrigin(url)
  /\ LET pathname == Pathname(url)
     IN \E i \in 1..Len(pathname) :
          /\ pathname[i] = "."
          /\ MatchAt(pathname, i, GeojsonExt)
          /\ EndOrQuery(pathname, i, GeojsonExt)

StaticExts ==
  { <<".","h","t","m">>, <<".","h","t","m","l">>, <<".","c","s","s">>, <<".","j","s">>,
    <<".","w","e","b","m","a","n","i","f","e","s","t">>, <<".","p","n","g">>,
    <<".","j","p","g">>, <<".","j","p","e","g">>, <<".","s","v","g">>, <<".","i","c","o">> }

\* /\.(?:html?|css|js|...)(\?|#|$)/i.test(url.pathname)
isStaticURL(url) ==
  /\ isSameOrigin(url)
  /\ LET pathname == Pathname(url)
     IN \E i \in 1..Len(pathname) :
          /\ pathname[i] = "."
          /\ \E ext \in StaticExts :
               /\ MatchAt(pathname, i, ext)
               /\ EndOrQuery(pathname, i, ext)

OsmHost == <<"t","i","l","e",".","o","p","e","n","s","t","r","e","e","t","m","a","p",".","o","r","g">>

LioHosts ==
  { <<"w","s",".","l","i","o",".","l","r","c",".","g","o","v",".","o","n",".","c","a">>,
    <<"w","s",".","g","e","o","s","e","r","v","i","c","e","s",".","l","r","c",".","g","o","v",".","o","n",".","c","a">> }

ArcgisHost == <<"a","r","c","g","i","s","o","n","l","i","n","e",".","c","o","m">>

UnpkgHost == <<"u","n","p","k","g",".","c","o","m">>

\* lit$ : the literal ends the string
EndsWith(s, lit) == MatchAt(s, Len(s) - Len(lit) + 1, lit)

isTileOrCDN(url) ==
  LET h == Host(url) IN
  \/ \E i \in 1..Len(h) :
       /\ MatchAt(h, i, OsmHost)
       /\ i + Len(OsmHost) = Len(h) + 1
       /\ (i = 1 \/ h[i - 1] = ".")
  \/ \E lit \in LioHosts : \E i \in 1..Len(h) : MatchAt(h, i, lit)
  \/ EndsWith(h, ArcgisHost)
  \/ EndsWith(h, UnpkgHost)

\* ------------------------------------------------------------------------
\* Versioned caches and their limits
\* ------------------------------------------------------------------------
STATIC_CACHE == "ontario-trails-static-v3"

DATA_CACHE == "ontario-trails-data-v3"

TILE_CACHE == "ontario-trails-tiles-v3"

StaticLimit == 40

DataLimit == 40

TileLimit == 400

\* LIMITS[cacheName]; a name that is no key of LIMITS gives undefined (falsy)
LIMITS(cacheName) ==
  CASE cacheName = STATIC_CACHE -> StaticLimit
    [] cacheName = DATA_CACHE -> DataLimit
    [] cacheName = TILE_CACHE -> TileLimit
    [] OTHER -> 0

\* the partitions an older generation of the worker left behind
OLD_PWA_CACHE == "ontario-trails-pwa-v2"

OLD_STATIC_CACHE == "ontario-trails-static-v2"

APP_SHELL ==
  << U("root", 0), U("index", 0), U("appcss", 0), U("appjs", 0), U("manifest", 0),
     U("otn", 0), U("fish", 0), U("access", 0) >>

\* './index.html' resolved against the worker's location
IndexKey == U("index", 0)

\* ------------------------------------------------------------------------
\* Responses
\* ------------------------------------------------------------------------
NoResp == [kind |-> "none", url |-> NoUrl, ok |-> FALSE, type |-> "none", ver |-> 0]

\* new Response('Offline', { status: 503, statusText: 'Offline' })
Synth503 == [kind |-> "synth", url |-> NoUrl, ok |-> FALSE, type |-> "default", ver |-> 0]

NetResp(u, isOk, t, v) == [kind |-> "net", url |-> u, ok |-> isOk, type |-> t, ver |-> v]

Vers == 1..MaxVer

\* what fetch(req) can resolve with: a basic response for a same-origin URL,
\* a cors or an opaque one (status 0, never ok) for a cross-origin URL; the
\* body is one of the versions of the resource, or (ver 0) an error page
\* a same-origin URL the server redirects to another origin: the response
\* is opaque for a no-cors request and of type cors for a cors request
Redirected(req) ==
  IF req.url.fam # "moved" THEN {}
  ELSE IF req.mode = "no-cors"
    THEN { NetResp(req.url, FALSE, "opaque", 1) }
    ELSE { NetResp(req.url, TRUE, "cors", 1) }

NetResponses(req) ==
  IF isSameOrigin(req.url)
    THEN { NetResp(req.url, TRUE, "basic", v) : v \in Vers }
           \cup { NetResp(req.url, FALSE, "basic", 0) }
           \cup Redirected(req)
    ELSE IF req.mode = "no-cors"
      THEN { NetResp(req.url, FALSE, "opaque", v) : v \in Vers }
      ELSE { NetResp(req.url, TRUE, "cors", v) : v \in Vers }
             \cup { NetResp(req.url, FALSE, "cors", 0) }

\* ------------------------------------------------------------------------
\* Generation store: the CacheStorage is the list of caches in creation
\* order, a cache is the list of its (request key, response) entries in
\* insertion order.
\* ------------------------------------------------------------------------
HasCache(cs, name) == \E i \in 1..Len(cs) : cs[i].name = name

CacheIndex(cs, name) == CHOOSE i \in 1..Len(cs) : cs[i].name = name

\* caches.open(name): creates the cache when it does not exist
Open(cs, name) ==
  IF HasCache(cs, name) THEN cs ELSE Append(cs, [name |-> name, entries |-> <<>>])

\* (a variant: the caches are enumerated newest first)
CacheKeysNewestFirst(cs) == [i \in 1..Len(cs) |-> cs[Len(cs) + 1 - i].name]

\* caches.keys()
CacheKeys(cs) == [i \in 1..Len(cs) |-> cs[i].name]

\* caches.delete(name)
DeleteCache(cs, name) ==
  LET Keep(c) == c.name # name IN SelectSeq(cs, Keep)

EntriesOf(cs, name) ==
  IF HasCache(cs, name) THEN cs[CacheIndex(cs, name)].entries ELSE <<>>

HasKey(entries, key) == \E i \in 1..Len(entries) : entries[i].key = key

\* cache.match(key): the first entry whose key matches, or undefined
Match(entries, key) ==
  IF HasKey(entries, key)
    THEN entries[CHOOSE i \in 1..Len(entries) :
                   /\ entries[i].key = key
                   /\ \A j \in 1..(i - 1) : entries[j].key # key].resp
    ELSE NoResp

\* cache.keys()
Keys(entries) == [i \in 1..Len(entries) |-> entries[i].key]

RemoveKey(entries, key) ==
  LET Keep(e) == e.key # key IN SelectSeq(entries, Keep)

\* (a variant: an existing entry is kept and the new response dropped)
PutEntryKeepFirst(entries, key, resp) ==
  IF HasKey(entries, key) THEN entries ELSE Append(entries, [key |-> key, resp |-> resp])

\* (a variant: the entry is appended and the matching ones stay)
PutEntryAppendOnly(entries, key, resp) == Append(entries, [key |-> key, resp |-> resp])

\* cache.put(key, resp): the matching entries are removed, the new one appended
PutEntry(entries, key, resp) ==
  Append(RemoveKey(entries, key), [key |-> key, resp |-> resp])

WithEntries(cs, name, entries) ==
  IF HasCache(cs, name)
    THEN [cs EXCEPT ![CacheIndex(cs, name)].entries = entries]
    ELSE cs

CachePut(cs, name, key, resp) ==
  WithEntries(cs, name, PutEntry(EntriesOf(cs, name), key, resp))

CacheDelete(cs, name, key) ==
  WithEntries(cs, name, RemoveKey(EntriesOf(cs, name), key))

\* (a variant: keys.slice(0, 1), only the oldest entry)
TrimVictimsOldestOnly(keys, maxEntries) ==
  IF Len(keys) <= maxEntries THEN <<>> ELSE SubSeq(keys, 1, 1)

\* (a variant: one entry too many is kept)
TrimVictimsButOne(keys, maxEntries) ==
  IF Len(keys) <= maxEntries + 1 THEN <<>> ELSE SubSeq(keys, 1, Len(keys) - maxEntries - 1)

\* (a variant: keys.slice(maxEntries), the newest entries)
TrimVictimsNewest(keys, maxEntries) ==
  IF Len(keys) <= maxEntries THEN <<>> ELSE SubSeq(keys, maxEntries + 1, Len(keys))

\* keys.slice(0, keys.length - maxEntries)
TrimVictims(keys, maxEntries) ==
  IF Len(keys) <= maxEntries THEN <<>> ELSE SubSeq(keys, 1, Len(keys) - maxEntries)


\* ------------------------------------------------------------------------
\* State
\* ------------------------------------------------------------------------
VARIABLES
  lifecycle,   \* installing -> installed -> activating -> activated
  skipWaiting, \* self.skipWaiting() has been called
  preload,     \* navigation preload is enabled
  caches,      \* the CacheStorage
  task,        \* the install / activate task: its position and its locals
  hs,          \* the fetch handlers in flight
  page,        \* the page: how many numbered URLs it has requested, the
               \* keys stored on its behalf, in the order the puts completed,
               \* and the (cache, key) pairs trimCache has deleted
  geo          \* geocode_lakes.mjs: the lookup in progress

vars == <<lifecycle, skipWaiting, preload, caches, task, hs, page, geo>>

Slots == 1..MaxInFlight

\* ------------------------------------------------------------------------
\* geocode_lakes.mjs: one lookup of a waterbody name
\* ------------------------------------------------------------------------
\* candidates in one answer of the search service (the query asks for 8)
MaxCandidates == 3

PREFERRED ==
  { "natural:water", "natural:lake", "water:lake", "water:reservoir",
    "waterway:riverbank", "place:sea", "boundary:protected_area" }

\* class:type of the candidates the service returns
CandidateKeys == {"natural:water", "water:reservoir", "place:village"}

\* haversine() is not a number when parseFloat(c.lat) or parseFloat(c.lon) is
\* not one
NaN == -1

\* the distances in metres haversine() gives for a candidate's coordinates
Distances == {499, 500, 1999, 2000, NaN}

\* a candidate as the service returns it; its coordinates are represented
\* by the distance haversine() computes for them from the hint
Candidates == [key : CandidateKeys, d : Distances]

\* comparisons with NaN are false
LessThan(d, limit) == d # NaN /\ d < limit

\* the hint: the feature's own point, or null
Hints == {"point", "null"}

\* (a variant: the proximity of the candidate is not rewarded)
scoreCandidateClassOnly(c, original) == IF c.key \in PREFERRED THEN 2 ELSE 0

scoreCandidate(c, original) ==
  (IF c.key \in PREFERRED THEN 2 ELSE 0)
    + (IF original = "null" THEN 0
       ELSE IF LessThan(c.d, 500) THEN 2
       ELSE IF LessThan(c.d, 2000) THEN 1
       ELSE 0)

\* arr.map(c => ...): the candidate with its score, in the service's order
\* (osm_id stands for the candidate's identity)
withScores(arr, hint) ==
  [n \in 1..Len(arr) |->
     [osm_id |-> n, _key |-> arr[n].key, _score |-> scoreCandidate(arr[n], hint)]]

\* (a, b) => b._score - a._score
Compare(a, b) == b._score - a._score

\* one element put into a sorted list, behind the elements that do not sort
\* after it
RECURSIVE InsertByScore(_, _)
InsertByScore(sorted, s) ==
  IF sorted = <<>> THEN <<s>>
  ELSE IF Compare(Head(sorted), s) > 0
    THEN <<s>> \o sorted
    ELSE <<Head(sorted)>> \o InsertByScore(Tail(sorted), s)

\* Array.prototype.sort is stable
RECURSIVE SortByScore(_, _)
SortByScore(sorted, rest) ==
  IF rest = <<>> THEN sorted
  ELSE SortByScore(InsertByScore(sorted, Head(rest)), Tail(rest))

Null == [osm_id |-> 0, _key |-> "null", _score |-> 0]

\* what res.json() can give: an array of candidates, or something else
RECURSIVE Lists(_)
Lists(n) ==
  IF n = 0 THEN {<<>>}
  ELSE Lists(n - 1) \cup {Append(l, c) : l \in {k \in Lists(n - 1) : Len(k) = n - 1},
                                         c \in Candidates}

Bodies ==
  {[isArray |-> TRUE, items |-> l] : l \in Lists(MaxCandidates)}
    \cup {[isArray |-> FALSE, items |-> <<>>]}

\* the value geocodeWaterbody returns for the parsed body
Best(arr, hint) ==
  IF ~arr.isArray \/ Len(arr.items) = 0 THEN Null
  ELSE SortByScore(<<>>, withScores(arr.items, hint))[1]

NoGeo == [pc |-> "none", hint |-> "null", arr |-> [isArray |-> FALSE, items |-> <<>>],
          best |-> Null]


NoReq == [url |-> NoUrl, mode |-> "none", method |-> "none", range |-> FALSE]

Req(u, m) == [url |-> u, mode |-> m, method |-> "GET", range |-> FALSE]

\* A handler: pc is the position of the respondWith task, resp the response
\* it resolved with; bg is the position of the task handed to waitUntil (or
\* of the revalidate task), bgResp the response it stores, victims the keys
\* trimCache still has to delete, net what revalidate resolved with, scan
\* the cache names the scan fallback still has to visit.  cats lists the
\* strategies that called respondWith.
\* The other fields record what the handler met: netCalls counts its own
\* fetch() calls, got is the response the network gave it, netFailed how the
\* network failed ("no", "error", "abort"), putFailed that its cache.put
\* rejected, hit that its cache lookup found an entry, prior the entry its
\* partition held for the URL when the request arrived, after that a static
\* handler had by then fetched the URL from the network and meant to store it.
Idle ==
  [ pc |-> "idle", req |-> NoReq, cats |-> <<>>, resp |-> NoResp,
    bg |-> "none", bgCache |-> "none", bgResp |-> NoResp, victims |-> <<>>,
    net |-> NoResp, scan |-> <<>>, netCalls |-> 0, got |-> NoResp,
    netFailed |-> "no", putFailed |-> FALSE, hit |-> FALSE, prior |-> NoResp,
    after |-> FALSE ]

NoTask == [pc |-> "none", victims |-> <<>>, fetched |-> {}]

\* the last message handled: none yet
NoSaid == [data |-> "none", called |-> FALSE]

\* the page clients open in the worker's scope
MaxClients == 2

Clients == 1..MaxClients

\* no page is controlled yet and clients.claim() has not been called;
\* ctl[c]: "none", "claimed" (taken over by clients.claim()) or "loaded"
\* (the page was loaded while the worker was active)
NoPage ==
  [fam |-> "none", issued |-> 0, log |-> <<>>, evicted |-> {}, heard |-> FALSE,
   said |-> NoSaid, claim |-> "none", ctl |-> [c \in Clients |-> "none"]]

\* the pages were loaded under the active worker
ServedPage == [NoPage EXCEPT !.claim = "done", !.ctl = [c \in Clients |-> "loaded"]]

Controlled(c) == page.ctl[c] # "none"

\* ------------------------------------------------------------------------
\* Fetch event: the guard and the dispatch to the strategies
\* ------------------------------------------------------------------------
\* (variants: the Range test forgotten, the method test forgotten)
InterceptedWithRange(req) == req.method = "GET"

InterceptedAnyMethod(req) == ~req.range

\* line 119: anything that is not a simple GET is left to the browser
Intercepted(req) == req.method = "GET" /\ ~req.range

StrategyNames == <<"navigation", "static", "data", "tiles", "other">>

\* (a variant: only no-cors loads count as static assets)
BlockTakenStaticNoCors(i, req) ==
  CASE i = 1 -> req.mode = "navigate"
    [] i = 2 -> isStaticURL(req.url) /\ req.mode = "no-cors"
    [] i = 3 -> isDataURL(req.url)
    [] i = 4 -> isTileOrCDN(req.url)
    [] OTHER -> TRUE

\* (a variant: a navigation whose URL matches a rule is left to that rule)
BlockTakenUrlFirst(i, req) ==
  CASE i = 1 -> /\ req.mode = "navigate"
                /\ ~(isStaticURL(req.url) \/ isDataURL(req.url) \/ isTileOrCDN(req.url))
    [] i = 2 -> isStaticURL(req.url)
    [] i = 3 -> isDataURL(req.url)
    [] i = 4 -> isTileOrCDN(req.url)
    [] OTHER -> TRUE

\* the condition of the i-th block of the handler
BlockTaken(i, req) ==
  CASE i = 1 -> req.mode = "navigate"
    [] i = 2 -> isStaticURL(req.url)
    [] i = 3 -> isDataURL(req.url)
    [] i = 4 -> isTileOrCDN(req.url)
    [] OTHER -> TRUE

\* (a variant: the static block falls through to the blocks after it)
BlockReturnsButStatic(i) == i # 2

\* the i-th block ends with `return`
BlockReturns(i) == TRUE

\* the strategies whose respondWith the handler calls, in order, from block i on
RECURSIVE Dispatch(_, _)
Dispatch(i, req) ==
  IF i > Len(StrategyNames) THEN <<>>
  ELSE IF BlockTaken(i, req)
    THEN <<StrategyNames[i]>> \o (IF BlockReturns(i) THEN <<>> ELSE Dispatch(i + 1, req))
    ELSE Dispatch(i + 1, req)

FirstPc(cat) ==
  CASE cat = "navigation" -> "nav_preload"
    [] cat = "static" -> "st_open"
    [] cat = "data" -> "da_open"
    [] cat = "tiles" -> "ti_open"
    [] OTHER -> "ot_fetch"

\* the partition a strategy reads and writes
PartitionFor(cat) ==
  CASE cat = "static" -> STATIC_CACHE
    [] cat = "data" -> DATA_CACHE
    [] cat = "tiles" -> TILE_CACHE
    [] OTHER -> "none"

\* a static handler's network fetch of this URL has already succeeded with a
\* response the strategy caches
FetchedBefore(u) ==
  \E j \in Slots :
    /\ hs[j].req.url = u
    /\ hs[j].cats = <<"static">>
    /\ hs[j].bgResp # NoResp

\* (a variant: fetch events reach the worker while its activate task runs)
DispatchableWhileActivating == lifecycle \in {"activating", "activated"}

\* the fetch listener is called only once the worker is activated: while the
\* promise given to the activate event's waitUntil is pending, fetch events
\* are held back
Dispatchable == lifecycle = "activated"

\* a fetch event is dispatched to the activated worker for a navigation in
\* its scope and for the requests of the pages it controls
FetchEvent(i, req) ==
  /\ Dispatchable
  /\ IF req.mode = "navigate" THEN TRUE ELSE {c \in Clients : Controlled(c)} # {}
  /\ hs[i].pc = "idle"
  /\ \A j \in 1..(i - 1) : hs[j].pc # "idle"
  /\ IF ~Intercepted(req)
       THEN hs' = [hs EXCEPT ![i] = [Idle EXCEPT !.pc = "done", !.req = req]]
       ELSE LET cats == Dispatch(1, req)
            IN hs' = [hs EXCEPT ![i] =
                 [Idle EXCEPT !.pc = FirstPc(cats[1]),
                              !.req = req,
                              !.cats = cats,
                              !.prior = Match(EntriesOf(caches, PartitionFor(cats[1])),
                                              req.url),
                              !.after = FetchedBefore(req.url)]]
  /\ UNCHANGED <<lifecycle, skipWaiting, preload, caches, task, page, geo>>

\* the request context is discarded once the response is returned and the
\* background task has settled
Retire(i) ==
  /\ hs[i].pc = "done"
  /\ hs[i].bg \in {"none", "done"}
  /\ hs' = [hs EXCEPT ![i] = Idle]
  /\ UNCHANGED <<lifecycle, skipWaiting, preload, caches, task, page, geo>>


\* ------------------------------------------------------------------------
\* Network
\* ------------------------------------------------------------------------
\* fetch() rejected (DNS, connection reset, offline)
NetError == [kind |-> "error", url |-> NoUrl, ok |-> FALSE, type |-> "error", ver |-> 0]

\* fetch() rejected because the AbortController fired
NetAbort == [kind |-> "abort", url |-> NoUrl, ok |-> FALSE, type |-> "error", ver |-> 0]

\* fetch(req)
Fetch(req) == NetResponses(req) \cup {NetError}

\* (a variant: no timer, the fetch settles when the network does)
fromNetworkNoTimeout(req) == Fetch(req)

\* the timer aborts the fetch after ms milliseconds unless it settled before
fromNetworkWithTimeout(req) == Fetch(req) \cup {NetAbort}

Failed(out) == out.kind \in {"error", "abort"}

\* ------------------------------------------------------------------------
\* Background tasks: cache.put, then trimCache
\* ------------------------------------------------------------------------
Set(i, rec) == hs' = [hs EXCEPT ![i] = rec]

Frame == UNCHANGED <<lifecycle, skipWaiting, preload, task, page, geo>>

\* the task settles; revalidate resolves with netRes only when it ran to its end
BgSettle(rec, completed) ==
  [rec EXCEPT !.bg = "done",
              !.victims = <<>>,
              !.net = IF completed /\ rec.cats = <<"tiles">> THEN rec.bgResp ELSE rec.net]

\* await cache.put(req, netRes.clone()): it stores the entry, or it rejects
\* (quota, I/O) and the rest of the task is skipped
PutStep(i, stored) ==
  /\ hs[i].bg = "put"
  /\ IF stored
       THEN /\ caches' = CachePut(caches, hs[i].bgCache, hs[i].req.url, hs[i].bgResp)
            /\ IF LIMITS(hs[i].bgCache) = 0
                 THEN Set(i, BgSettle(hs[i], TRUE))
                 ELSE Set(i, [hs[i] EXCEPT !.bg = "trim_open"])
       ELSE /\ caches' = caches
            /\ Set(i, [BgSettle(hs[i], FALSE) EXCEPT !.putFailed = TRUE])
  /\ UNCHANGED <<lifecycle, skipWaiting, preload, task, geo>>

BgPut(i) ==
  /\ \E stored \in BOOLEAN : PutStep(i, stored)
  /\ UNCHANGED page

\* trimCache: const cache = await caches.open(cacheName)
TrimOpen(i) ==
  /\ hs[i].bg = "trim_open"
  /\ caches' = Open(caches, hs[i].bgCache)
  /\ Set(i, [hs[i] EXCEPT !.bg = "trim_keys"])
  /\ Frame

\* trimCache: const keys = await cache.keys(); the deletes are issued at once
TrimKeys(i) ==
  /\ hs[i].bg = "trim_keys"
  /\ LET victims == TrimVictims(Keys(EntriesOf(caches, hs[i].bgCache)),
                                LIMITS(hs[i].bgCache))
     IN IF victims = <<>>
          THEN Set(i, BgSettle(hs[i], TRUE))
          ELSE Set(i, [hs[i] EXCEPT !.bg = "trim_del", !.victims = victims])
  /\ UNCHANGED caches
  /\ Frame

\* trimCache: one of the pending cache.delete(k) takes effect; Promise.all
\* resolves after the last one
TrimDelete(i) ==
  /\ hs[i].bg = "trim_del"
  /\ \E n \in 1..Len(hs[i].victims) :
       LET rest == SubSeq(hs[i].victims, 1, n - 1)
                     \o SubSeq(hs[i].victims, n + 1, Len(hs[i].victims))
       IN /\ caches' = CacheDelete(caches, hs[i].bgCache, hs[i].victims[n])
          /\ page' = [page EXCEPT !.evicted =
                                    @ \cup {<<hs[i].bgCache, hs[i].victims[n]>>}]
          /\ IF rest = <<>>
               THEN Set(i, BgSettle(hs[i], TRUE))
               ELSE Set(i, [hs[i] EXCEPT !.victims = rest])
  /\ UNCHANGED <<lifecycle, skipWaiting, preload, task, geo>>


\* ------------------------------------------------------------------------
\* 1) Navigation: preload, else network, else cached index.html
\* ------------------------------------------------------------------------
\* (a variant: the `|| new Response(...)` forgotten)
OrNothing(cached) == cached

OrOffline(cached) == IF cached # NoResp THEN cached ELSE Synth503

\* event.preloadResponse resolves to the response of the browser's preload
\* request when navigation preload is enabled, and to undefined when not
PreloadResponse(req) ==
  IF preload
    THEN {[NetResp(req.url, TRUE, "basic", v) EXCEPT !.kind = "preload"] : v \in Vers}
    ELSE {NoResp}

\* (a variant: the preload response is not looked at)
PreloadIgnored(preloaded) == FALSE

\* if (preloaded) return preloaded
PreloadReturned(preloaded) == preloaded # NoResp

\* const preloaded = await event.preloadResponse, which rejects when the
\* preload request failed; the rejection is caught at line 134
NavPreload(i) ==
  /\ hs[i].pc = "nav_preload"
  /\ \/ \E preloaded \in PreloadResponse(hs[i].req) :
          IF PreloadReturned(preloaded)
            THEN Set(i, [hs[i] EXCEPT !.pc = "done", !.resp = preloaded])
            ELSE Set(i, [hs[i] EXCEPT !.pc = "nav_fetch"])
     \/ /\ preload
        /\ Set(i, [hs[i] EXCEPT !.pc = "nav_open", !.netFailed = "error"])
  /\ UNCHANGED caches
  /\ Frame

\* (a variant: the page the network gave is stored in the static partition)
NavFetchStoring(i) ==
  /\ hs[i].pc = "nav_fetch"
  /\ \E out \in Fetch(hs[i].req) :
       IF Failed(out)
         THEN /\ Set(i, [hs[i] EXCEPT !.pc = "nav_open", !.netFailed = out.kind,
                                      !.netCalls = @ + 1])
              /\ UNCHANGED caches
         ELSE /\ Set(i, [hs[i] EXCEPT !.pc = "done", !.resp = out, !.got = out,
                                      !.netCalls = @ + 1])
              /\ caches' = CachePut(caches, STATIC_CACHE, hs[i].req.url, out)
  /\ Frame

\* const netRes = await fetch(req)
NavFetch(i) ==
  /\ hs[i].pc = "nav_fetch"
  /\ \E out \in Fetch(hs[i].req) :
       IF Failed(out)
         THEN Set(i, [hs[i] EXCEPT !.pc = "nav_open", !.netFailed = out.kind,
                                   !.netCalls = @ + 1])
         ELSE Set(i, [hs[i] EXCEPT !.pc = "done", !.resp = out, !.got = out, !.netCalls = @ + 1])
  /\ UNCHANGED caches
  /\ Frame

\* catch: const cache = await caches.open(STATIC_CACHE)
NavOpen(i) ==
  /\ hs[i].pc = "nav_open"
  /\ caches' = Open(caches, STATIC_CACHE)
  /\ Set(i, [hs[i] EXCEPT !.pc = "nav_match"])
  /\ Frame

\* (a variant: the fallback looks into the data cache)
NavFallbackInData == Match(EntriesOf(caches, DATA_CACHE), IndexKey)

\* the cache and the key the offline fallback reads
NavFallback == Match(EntriesOf(caches, STATIC_CACHE), IndexKey)

\* const cached = await cache.match('./index.html'); return cached || 503
NavMatch(i) ==
  /\ hs[i].pc = "nav_match"
  /\ Set(i, [hs[i] EXCEPT !.pc = "done",
                          !.hit = NavFallback # NoResp,
                          !.resp = OrOffline(NavFallback)])
  /\ UNCHANGED caches
  /\ Frame

\* ------------------------------------------------------------------------
\* 2) Static: cache-first
\* ------------------------------------------------------------------------
StOpen(i) ==
  /\ hs[i].pc = "st_open"
  /\ caches' = Open(caches, STATIC_CACHE)
  /\ Set(i, [hs[i] EXCEPT !.pc = "st_match"])
  /\ Frame

\* const cached = await cache.match(req, { ignoreVary: true })
StaticLookup(req) == Match(EntriesOf(caches, STATIC_CACHE), req.url)

StMatch(i) ==
  /\ hs[i].pc = "st_match"
  /\ IF StaticLookup(hs[i].req) # NoResp
       THEN Set(i, [hs[i] EXCEPT !.pc = "done", !.hit = TRUE,
                                 !.resp = StaticLookup(hs[i].req)])
       ELSE Set(i, [hs[i] EXCEPT !.pc = "st_fetch"])
  /\ UNCHANGED caches
  /\ Frame

\* (a variant: the response type is not looked at)
StaticCacheableAnyType(netRes) == netRes.ok

\* line 153: the responses the static strategy stores
StaticCacheable(netRes) == netRes.ok /\ netRes.type \in {"basic", "default"}

\* (a variant: the catch branch stores the response it synthesizes)
StFetchGotOfflineStored(i, out) ==
  /\ hs[i].pc = "st_fetch"
  /\ IF Failed(out)
         THEN Set(i, [hs[i] EXCEPT !.pc = "done", !.resp = Synth503,
                                   !.netFailed = out.kind, !.netCalls = @ + 1,
                                   !.bg = "put", !.bgCache = STATIC_CACHE,
                                   !.bgResp = Synth503])
         ELSE IF StaticCacheable(out)
           THEN Set(i, [hs[i] EXCEPT !.pc = "done", !.resp = out, !.got = out, !.netCalls = @ + 1,
                                     !.bg = "put", !.bgCache = STATIC_CACHE,
                                     !.bgResp = out])
           ELSE Set(i, [hs[i] EXCEPT !.pc = "done", !.resp = out, !.got = out, !.netCalls = @ + 1])
  /\ UNCHANGED caches
  /\ Frame

\* const netRes = await fetch(req); the put is handed to waitUntil and the
\* response is returned at once
StFetchGot(i, out) ==
  /\ hs[i].pc = "st_fetch"
  /\ IF Failed(out)
         THEN Set(i, [hs[i] EXCEPT !.pc = "done", !.resp = Synth503,
                                   !.netFailed = out.kind, !.netCalls = @ + 1])
         ELSE IF StaticCacheable(out)
           THEN Set(i, [hs[i] EXCEPT !.pc = "done", !.resp = out, !.got = out, !.netCalls = @ + 1,
                                     !.bg = "put", !.bgCache = STATIC_CACHE,
                                     !.bgResp = out])
           ELSE Set(i, [hs[i] EXCEPT !.pc = "done", !.resp = out, !.got = out, !.netCalls = @ + 1])
  /\ UNCHANGED caches
  /\ Frame

StFetch(i) == \E out \in Fetch(hs[i].req) : StFetchGot(i, out)

\* ------------------------------------------------------------------------
\* 3) Data: network-first with a timeout
\* ------------------------------------------------------------------------
DaOpen(i) ==
  /\ hs[i].pc = "da_open"
  /\ caches' = Open(caches, DATA_CACHE)
  /\ Set(i, [hs[i] EXCEPT !.pc = "da_fetch"])
  /\ Frame

\* (a variant: && for ||)
StorableOpaqueOnly(netRes) == netRes.ok /\ netRes.type = "opaque"

\* (a variant: every response the network gave is stored)
StorableWhatever(netRes) == TRUE

\* lines 173 and 196: the responses the data and the tile strategy store
Storable(netRes) == netRes.ok \/ netRes.type = "opaque"

\* const netRes = await fromNetworkWithTimeout(req, 8000)
DaFetchGot(i, out) ==
  /\ hs[i].pc = "da_fetch"
  /\ IF Failed(out)
         THEN Set(i, [hs[i] EXCEPT !.pc = "da_match", !.netFailed = out.kind,
                                   !.netCalls = @ + 1])
         ELSE IF Storable(out)
           THEN Set(i, [hs[i] EXCEPT !.pc = "done", !.resp = out, !.got = out, !.netCalls = @ + 1,
                                     !.bg = "put", !.bgCache = DATA_CACHE,
                                     !.bgResp = out])
           ELSE Set(i, [hs[i] EXCEPT !.pc = "done", !.resp = out, !.got = out, !.netCalls = @ + 1])
  /\ UNCHANGED caches
  /\ Frame

DaFetch(i) == \E out \in fromNetworkWithTimeout(hs[i].req) : DaFetchGot(i, out)

\* setTimeout(() => controller.abort(), ms) fires before the network answers
DaTimeout(i) ==
  /\ NetAbort \in fromNetworkWithTimeout(hs[i].req)
  /\ DaFetchGot(i, NetAbort)

\* (a variant: the lookup goes to the static cache)
DataLookupInStatic(req) == Match(EntriesOf(caches, STATIC_CACHE), req.url)

\* catch: const cached = await cache.match(req, { ignoreVary: true })
DataLookup(req) == Match(EntriesOf(caches, DATA_CACHE), req.url)

DaMatch(i) ==
  /\ hs[i].pc = "da_match"
  /\ Set(i, [hs[i] EXCEPT !.pc = "done",
                          !.hit = DataLookup(hs[i].req) # NoResp,
                          !.resp = OrOffline(DataLookup(hs[i].req))])
  /\ UNCHANGED caches
  /\ Frame


\* ------------------------------------------------------------------------
\* 4) Tiles and CDNs: stale-while-revalidate
\* ------------------------------------------------------------------------
TiOpen(i) ==
  /\ hs[i].pc = "ti_open"
  /\ caches' = Open(caches, TILE_CACHE)
  /\ Set(i, [hs[i] EXCEPT !.pc = "ti_match"])
  /\ Frame

\* const cached = await cache.match(req)
TileLookup(req) == Match(EntriesOf(caches, TILE_CACHE), req.url)

\* revalidate is started; a cached entry is returned without awaiting it
TiMatch(i) ==
  /\ hs[i].pc = "ti_match"
  /\ IF TileLookup(hs[i].req) # NoResp
       THEN Set(i, [hs[i] EXCEPT !.pc = "done", !.hit = TRUE,
                                 !.resp = TileLookup(hs[i].req),
                                 !.bg = "rv_fetch", !.bgCache = TILE_CACHE])
       ELSE Set(i, [hs[i] EXCEPT !.pc = "ti_wait",
                                 !.bg = "rv_fetch", !.bgCache = TILE_CACHE])
  /\ UNCHANGED caches
  /\ Frame

\* revalidate: const netRes = await fetch(req, { cache: 'no-store' })
RvFetchGot(i, out) ==
  /\ hs[i].bg = "rv_fetch"
  /\ IF Failed(out)
         THEN Set(i, [hs[i] EXCEPT !.bg = "done", !.netFailed = out.kind,
                                   !.netCalls = @ + 1])
         ELSE IF Storable(out)
           THEN Set(i, [hs[i] EXCEPT !.bg = "put", !.bgResp = out, !.got = out,
                                     !.netCalls = @ + 1])
           ELSE Set(i, [hs[i] EXCEPT !.bg = "done", !.net = out, !.got = out,
                                     !.netCalls = @ + 1])
  /\ UNCHANGED caches
  /\ Frame

RvFetch(i) == \E out \in Fetch(hs[i].req) : RvFetchGot(i, out)

\* const net = await revalidate; return net || 503
TiWait(i) ==
  /\ hs[i].pc = "ti_wait"
  /\ hs[i].bg = "done"
  /\ Set(i, [hs[i] EXCEPT !.pc = "done", !.resp = OrOffline(hs[i].net)])
  /\ UNCHANGED caches
  /\ Frame

\* ------------------------------------------------------------------------
\* 5) Everything else: network, then a scan of every cache
\* ------------------------------------------------------------------------
OtFetch(i) ==
  /\ hs[i].pc = "ot_fetch"
  /\ \E out \in Fetch(hs[i].req) :
       IF Failed(out)
         THEN Set(i, [hs[i] EXCEPT !.pc = "ot_keys", !.netFailed = out.kind,
                                   !.netCalls = @ + 1])
         ELSE Set(i, [hs[i] EXCEPT !.pc = "done", !.resp = out, !.got = out, !.netCalls = @ + 1])
  /\ UNCHANGED caches
  /\ Frame

\* catch: const keys = await caches.keys()
OtKeys(i) ==
  /\ hs[i].pc = "ot_keys"
  /\ IF CacheKeys(caches) = <<>>
       THEN Set(i, [hs[i] EXCEPT !.pc = "done", !.resp = Synth503])
       ELSE Set(i, [hs[i] EXCEPT !.pc = "ot_open", !.scan = CacheKeys(caches)])
  /\ UNCHANGED caches
  /\ Frame

\* const cache = await caches.open(k)
OtOpen(i) ==
  /\ hs[i].pc = "ot_open"
  /\ caches' = Open(caches, Head(hs[i].scan))
  /\ Set(i, [hs[i] EXCEPT !.pc = "ot_match"])
  /\ Frame

\* const match = await cache.match(req); if (match) return match
OtMatch(i) ==
  /\ hs[i].pc = "ot_match"
  /\ LET found == Match(EntriesOf(caches, Head(hs[i].scan)), hs[i].req.url)
     IN IF found # NoResp
          THEN Set(i, [hs[i] EXCEPT !.pc = "done", !.hit = TRUE, !.resp = found,
                                    !.scan = <<>>])
          ELSE IF Tail(hs[i].scan) = <<>>
            THEN Set(i, [hs[i] EXCEPT !.pc = "done", !.resp = Synth503, !.scan = <<>>])
            ELSE Set(i, [hs[i] EXCEPT !.pc = "ot_open", !.scan = Tail(@)])
  /\ UNCHANGED caches
  /\ Frame

\* ------------------------------------------------------------------------
\* Lifecycle: install and activate
\* ------------------------------------------------------------------------
\* the install listener: waitUntil(...) starts the task, then skipWaiting()
InstallEvent ==
  /\ lifecycle = "installing"
  /\ task.pc = "none"
  /\ task' = [task EXCEPT !.pc = "inst_open"]
  /\ skipWaiting' = TRUE
  /\ UNCHANGED <<lifecycle, preload, caches, hs, page, geo>>

InstallOpen ==
  /\ task.pc = "inst_open"
  /\ caches' = Open(caches, STATIC_CACHE)
  /\ task' = [task EXCEPT !.pc = "inst_addall"]
  /\ UNCHANGED <<lifecycle, skipWaiting, preload, hs, page, geo>>

RECURSIVE PutAll(_, _, _)
PutAll(entries, urls, v) ==
  IF urls = <<>> THEN entries
  ELSE PutAll(PutEntry(entries, Head(urls), NetResp(Head(urls), TRUE, "basic", v)),
              Tail(urls), v)

ShellFiles == {APP_SHELL[k] : k \in 1..Len(APP_SHELL)}

\* the shell items marked optional, "if present locally"
OptionalFiles == {U("otn", 0), U("fish", 0), U("access", 0)}

\* the app-shell files the server can deliver during install: all of them,
\* all but some optional ones, or none (offline)
Fetchable == {ShellFiles \ missing : missing \in SUBSET OptionalFiles} \cup {{}}

\* (a variant: no try/catch around addAll, a rejection fails the install)
InstallOutcomeUncaught(added) == IF added THEN "installed" ELSE "redundant"

\* try { ... } catch (_) {}: the task resolves whether addAll resolved or
\* rejected, and the worker is installed
InstallOutcome(added) == "installed"

\* await cache.addAll(APP_SHELL): every file is fetched, and the responses
\* are stored only when every fetch gave an ok response; a failed fetch, a
\* response that is not ok or a failed write rejects and stores nothing
InstallAddAll ==
  /\ task.pc = "inst_addall"
  /\ \E avail \in Fetchable :
       /\ \/ /\ avail = ShellFiles
             /\ \E v \in Vers :
                  caches' = WithEntries(caches, STATIC_CACHE,
                                        PutAll(EntriesOf(caches, STATIC_CACHE),
                                               APP_SHELL, v))
             /\ lifecycle' = InstallOutcome(TRUE)
          \/ /\ caches' = caches
             /\ lifecycle' = InstallOutcome(FALSE)
       /\ task' = [NoTask EXCEPT !.fetched = avail]
  /\ UNCHANGED <<skipWaiting, preload, hs, page, geo>>

\* (a variant: the browser does not wait for the install task)
ActivateWithoutWaiting ==
  /\ lifecycle \in {"installing", "installed"}
  /\ skipWaiting
  /\ lifecycle' = "activating"
  /\ task' = [NoTask EXCEPT !.pc = "act_preload"]
  /\ page' = [page EXCEPT !.claim = "pending"]
  /\ UNCHANGED <<skipWaiting, preload, caches, hs, geo>>

\* (a variant: the activate listener does not call clients.claim())
ActivateWithoutClaim ==
  /\ lifecycle = "installed"
  /\ skipWaiting
  /\ lifecycle' = "activating"
  /\ task' = [NoTask EXCEPT !.pc = "act_preload"]
  /\ UNCHANGED <<skipWaiting, preload, caches, hs, page, geo>>

\* the browser activates an installed worker that asked to skip waiting; the
\* activate listener starts its task with waitUntil and calls
\* self.clients.claim(), which it does not await
Activate ==
  /\ lifecycle = "installed"
  /\ skipWaiting
  /\ lifecycle' = "activating"
  /\ task' = [NoTask EXCEPT !.pc = "act_preload"]
  /\ page' = [page EXCEPT !.claim = "pending"]
  /\ UNCHANGED <<skipWaiting, preload, caches, hs, geo>>

\* clients.claim() takes effect, in parallel with the activate task: the
\* worker becomes the controller of every open page in its scope
ClaimClients ==
  /\ page.claim = "pending"
  /\ lifecycle \in {"activating", "activated"}
  /\ page' = [page EXCEPT !.claim = "done",
                          !.ctl = [c \in Clients |->
                                     IF @[c] = "none" THEN "claimed" ELSE @[c]]]
  /\ UNCHANGED <<lifecycle, skipWaiting, preload, caches, task, hs, geo>>

\* the user reloads a page: it is loaded under the worker if that is activated
Reload(c) ==
  /\ lifecycle = "activated"
  /\ page.ctl[c] # "loaded"
  /\ page' = [page EXCEPT !.ctl[c] = "loaded"]
  /\ UNCHANGED <<lifecycle, skipWaiting, preload, caches, task, hs, geo>>

\* if (navigationPreload) try { await navigationPreload.enable() } catch {}
ActPreload ==
  /\ task.pc = "act_preload"
  /\ preload' \in BOOLEAN
  /\ task' = [task EXCEPT !.pc = "act_keys"]
  /\ UNCHANGED <<lifecycle, skipWaiting, caches, hs, page, geo>>

keep == {STATIC_CACHE, DATA_CACHE, TILE_CACHE}

\* (a variant: the previous generation's static cache is kept as well)
StaleButOldStatic(keys) ==
  LET Old(k) == k \notin (keep \cup {OLD_STATIC_CACHE}) IN SelectSeq(keys, Old)

\* (a variant: only the static partition is kept)
StaleButStatic(keys) == LET Old(k) == k # STATIC_CACHE IN SelectSeq(keys, Old)

\* keys.map(k => (!keep.has(k) ? caches.delete(k) : null))
Stale(keys) == LET Old(k) == k \notin keep IN SelectSeq(keys, Old)

\* const keys = await caches.keys(); the deletes are issued at once
ActKeys ==
  /\ task.pc = "act_keys"
  /\ IF Stale(CacheKeys(caches)) = <<>>
       THEN /\ task' = NoTask
            /\ lifecycle' = "activated"
       ELSE /\ task' = [task EXCEPT !.pc = "act_del",
                                     !.victims = Stale(CacheKeys(caches))]
            /\ lifecycle' = lifecycle
  /\ UNCHANGED <<skipWaiting, preload, caches, hs, page, geo>>

\* one of the pending caches.delete(k) takes effect; after the last one the
\* task resolves and the worker is activated
ActDelete ==
  /\ task.pc = "act_del"
  /\ \E n \in 1..Len(task.victims) :
       LET rest == SubSeq(task.victims, 1, n - 1)
                     \o SubSeq(task.victims, n + 1, Len(task.victims))
       IN /\ caches' = DeleteCache(caches, task.victims[n])
          /\ IF rest = <<>>
               THEN task' = NoTask /\ lifecycle' = "activated"
               ELSE task' = [task EXCEPT !.victims = rest] /\ lifecycle' = lifecycle
  /\ UNCHANGED <<skipWaiting, preload, hs, page, geo>>

\* what a page posts to the worker
Messages == {"SKIP_WAITING", "PING"}

\* (a variant: every message is taken for the command)
CommandAny(data) == TRUE

\* event.data === 'SKIP_WAITING'
Command(data) == data = "SKIP_WAITING"

\* the message listener, run after the install listener has run:
\* if (event.data === 'SKIP_WAITING') self.skipWaiting()
\* (page.said: the last message and whether the listener called skipWaiting)
Message ==
  /\ lifecycle # "installing" \/ task.pc # "none"
  /\ \E data \in Messages :
       /\ skipWaiting' = (skipWaiting \/ Command(data))
       /\ page' = [page EXCEPT !.heard = @ \/ lifecycle = "activated",
                               !.said = [data |-> data, called |-> Command(data)]]
  /\ UNCHANGED <<lifecycle, preload, caches, task, hs, geo>>


\* ------------------------------------------------------------------------
\* Initial states
\* ------------------------------------------------------------------------
\* the entries of members from..to of a numbered family, oldest first
Filled(fam, from, to) ==
  [n \in 1..(to - from + 1) |->
     [key |-> U(fam, from + n - 1),
      resp |-> NetResp(U(fam, from + n - 1), TRUE, "basic", 1)]]

\* what the older generation cached (its own app shell)
OldEntries ==
  << [key |-> U("index", 0), resp |-> NetResp(U("index", 0), TRUE, "basic", 1)],
     [key |-> U("otn", 0), resp |-> NetResp(U("otn", 0), TRUE, "basic", 1)] >>

\* the storage a newly installing worker can find: nothing, the caches of an
\* older generation, or a cache of one of its own names written by an
\* earlier build that carried the same VERSION
InitialStores ==
  { <<>>,
    << [name |-> OLD_PWA_CACHE, entries |-> OldEntries] >>,
    << [name |-> OLD_PWA_CACHE, entries |-> OldEntries],
       [name |-> OLD_STATIC_CACHE, entries |-> <<>>] >>,
    << [name |-> OLD_STATIC_CACHE, entries |-> OldEntries],
       [name |-> DATA_CACHE, entries |-> Filled("dat", 1, 2)] >> }

\* the worker script has just been evaluated for a new installation
Init ==
  /\ lifecycle = "installing"
  /\ skipWaiting = FALSE
  /\ preload = FALSE
  /\ caches \in InitialStores
  /\ task = NoTask
  /\ hs = [i \in Slots |-> Idle]
  /\ page = NoPage
  /\ geo = NoGeo

\* the app shell as install stored it
ShellEntries == PutAll(<<>>, APP_SHELL, 1)

\* the activated worker has been started again to serve a page; the caches
\* persist from its earlier runs
Serving(stores) ==
  /\ lifecycle = "activated"
  /\ skipWaiting = TRUE
  /\ preload = FALSE
  /\ caches \in stores
  /\ task = NoTask
  /\ hs = [i \in Slots |-> Idle]
  /\ page = ServedPage
  /\ geo = NoGeo

\* the static partition right after install, and at its limit
StaticStores ==
  { << [name |-> STATIC_CACHE, entries |-> ShellEntries] >>,
    << [name |-> STATIC_CACHE,
        entries |-> ShellEntries \o Filled("img", 1, StaticLimit - Len(APP_SHELL))] >> }

\* no data partition yet, and the data partition at its limit
DataStores ==
  { << [name |-> STATIC_CACHE, entries |-> ShellEntries] >>,
    << [name |-> STATIC_CACHE, entries |-> ShellEntries],
       [name |-> DATA_CACHE, entries |-> Filled("dat", 1, DataLimit)] >> }

OpaqueTiles(entries) ==
  [n \in 1..Len(entries) |-> [entries[n] EXCEPT !.resp.ok = FALSE, !.resp.type = "opaque"]]

\* a tile partition holding one tile, and the tile partition at its limit
TileStores ==
  { << [name |-> STATIC_CACHE, entries |-> ShellEntries],
       [name |-> TILE_CACHE, entries |-> OpaqueTiles(Filled("osm", 1, 1))] >>,
    << [name |-> STATIC_CACHE, entries |-> ShellEntries],
       [name |-> TILE_CACHE, entries |-> OpaqueTiles(Filled("osm", 1, TileLimit))] >> }

\* ------------------------------------------------------------------------
\* Specifications
\* ------------------------------------------------------------------------
Lifecycle ==
  \/ InstallEvent
  \/ InstallOpen
  \/ InstallAddAll
  \/ Activate
  \/ ActPreload
  \/ ActKeys
  \/ ActDelete
  \/ ClaimClients

Background(i) ==
  \/ BgPut(i)
  \/ TrimOpen(i)
  \/ TrimKeys(i)
  \/ TrimDelete(i)

Navigation(i) ==
  \/ NavPreload(i)
  \/ NavFetch(i)
  \/ NavOpen(i)
  \/ NavMatch(i)

Static(i) ==
  \/ StOpen(i)
  \/ StMatch(i)
  \/ StFetch(i)

Data(i) ==
  \/ DaOpen(i)
  \/ DaFetch(i)
  \/ DaMatch(i)

Tiles(i) ==
  \/ TiOpen(i)
  \/ TiMatch(i)
  \/ RvFetch(i)
  \/ TiWait(i)

Other(i) ==
  \/ OtFetch(i)
  \/ OtKeys(i)
  \/ OtOpen(i)
  \/ OtMatch(i)

\* The worker from its installation on, serving navigations and requests of
\* the category other (the two strategies that only read the caches).
Pool ==
  { Req(U("root", 0), "navigate"),
    Req(U("root", 0), "cors"),
    Req(U("nominatim", 0), "cors"),
    [Req(U("otn", 0), "cors") EXCEPT !.method = "POST"] }

Next ==
  \/ Lifecycle
  \/ \E i \in Slots : \E req \in Pool : FetchEvent(i, req)
  \/ \E i \in Slots : Navigation(i)
  \/ \E i \in Slots : Other(i)
  \/ \E i \in Slots : Retire(i)

Spec == Init /\ [][Next]_vars

\* The activated worker serving static assets: as many requests as there are
\* handlers, each kept on record after it has been answered.
StaticPool ==
  { Req(U("appjs", 0), "no-cors"), Req(U("img", StaticLimit + 1), "no-cors") }

NextStatic ==
  \/ \E i \in Slots : \E req \in StaticPool : FetchEvent(i, req)
  \/ \E i \in Slots : Static(i)
  \/ \E i \in Slots : Background(i)

SpecStatic == Serving(StaticStores) /\ [][NextStatic]_vars

\* The activated worker serving datasets.
DataPool == { Req(U("otn", 0), "cors"), Req(U("dat", 1), "cors") }

NextData ==
  \/ \E i \in Slots : \E req \in DataPool : FetchEvent(i, req)
  \/ \E i \in Slots : Data(i)
  \/ \E i \in Slots : Background(i)

SpecData == Serving(DataStores) /\ [][NextData]_vars

\* The activated worker serving map tiles.
TilePool == { Req(U("osm", 1), "no-cors"), Req(U("osm", TileLimit + 1), "no-cors") }

NextTiles ==
  \/ \E i \in Slots : \E req \in TilePool : FetchEvent(i, req)
  \/ \E i \in Slots : Tiles(i)
  \/ \E i \in Slots : Background(i)

SpecTiles == Serving(TileStores) /\ [][NextTiles]_vars


\* The app shell, the data partition at its limit and one tile.
ServeStores ==
  { << [name |-> STATIC_CACHE, entries |-> ShellEntries],
       [name |-> DATA_CACHE, entries |-> Filled("dat", 1, DataLimit)],
       [name |-> TILE_CACHE, entries |-> OpaqueTiles(Filled("osm", 1, 1))] >> }

\* The activated worker serving assets, datasets and tiles side by side: the
\* static partition is at its limit, the others hold one entry each.
FullStaticStores ==
  { << [name |-> STATIC_CACHE,
        entries |-> ShellEntries \o Filled("img", 1, StaticLimit - Len(APP_SHELL))],
       [name |-> DATA_CACHE, entries |-> Filled("dat", 1, 1)],
       [name |-> TILE_CACHE, entries |-> OpaqueTiles(Filled("osm", 1, 1))] >> }

ServePool ==
  { Req(U("img", StaticLimit + 1), "no-cors"), Req(U("dat", 1), "cors"),
    Req(U("osm", 2), "no-cors") }

NextServe ==
  \/ \E i \in Slots : \E req \in ServePool : FetchEvent(i, req)
  \/ \E i \in Slots : Static(i)
  \/ \E i \in Slots : Data(i)
  \/ \E i \in Slots : Tiles(i)
  \/ \E i \in Slots : Background(i)

SpecServe == Serving(FullStaticStores) /\ [][NextServe]_vars

\* The dispatch alone: fetch events for requests of every shape.
ClassifyUrls ==
  { U("root", 0), U("index", 0), U("appcss", 0), U("appjs", 0), U("manifest", 0),
    U("otn", 0), U("fish", 0), U("access", 0), U("img", 1), U("dat", 1),
    U("logo", 0), U("json", 0), U("page", 1), U("osm", 1), U("lio", 1),
    U("lioservices", 1), U("arcgis", 1), U("unpkg", 0), U("nominatim", 0),
    U("cdnjs", 0) }

ClassifyPool ==
  { Req(u, m) : u \in ClassifyUrls, m \in {"navigate", "cors", "no-cors"} }
    \cup { [Req(U("otn", 0), "cors") EXCEPT !.method = "POST"],
           [Req(U("osm", 1), "no-cors") EXCEPT !.range = TRUE] }

NextClassify ==
  \/ \E i \in Slots : \E req \in ClassifyPool : FetchEvent(i, req)
  \/ \E i \in Slots : Retire(i)

SpecClassify ==
  Serving({ << [name |-> STATIC_CACHE, entries |-> ShellEntries] >> })
    /\ [][NextClassify]_vars

\* One partition filled beyond its limit: the page requests the members of
\* one numbered family one after the other, each once, over a healthy
\* network, and every put succeeds.  The run starts when the partition is
\* one entry short of its limit (the puts so far came one at a time, and
\* their trims found nothing to delete); from there on the requests overlap.
TrimFamilies == {"img", "dat", "osm"}

PartitionOf(fam) ==
  CASE fam = "img" -> STATIC_CACHE
    [] fam = "dat" -> DATA_CACHE
    [] OTHER -> TILE_CACHE

\* puts beyond the partition's limit
MaxExtra == 2

Healthy(req) ==
  IF isSameOrigin(req.url)
    THEN NetResp(req.url, TRUE, "basic", 1)
    ELSE NetResp(req.url, FALSE, "opaque", 1)

NextRequest(i) ==
  /\ lifecycle = "activated"
  /\ hs[i].pc = "idle"
  /\ \A j \in 1..(i - 1) : hs[j].pc # "idle"
  /\ page.issued < LIMITS(PartitionOf(page.fam)) + MaxExtra
  /\ LET req == Req(U(page.fam, page.issued + 1), "no-cors")
         cats == Dispatch(1, req)
     IN hs' = [hs EXCEPT ![i] =
                 [Idle EXCEPT !.pc = FirstPc(cats[1]), !.req = req, !.cats = cats]]
  /\ page' = [page EXCEPT !.issued = @ + 1]
  /\ UNCHANGED <<lifecycle, skipWaiting, preload, caches, task, geo>>

HealthyStFetch(i) == StFetchGot(i, Healthy(hs[i].req))

HealthyDaFetch(i) == DaFetchGot(i, Healthy(hs[i].req))

HealthyRvFetch(i) == RvFetchGot(i, Healthy(hs[i].req))

LoggedPut(i) ==
  /\ PutStep(i, TRUE)
  /\ page' = [page EXCEPT !.log = Append(@, hs[i].req.url)]

Prefill(fam) ==
  LET entries == Filled(fam, 1, LIMITS(PartitionOf(fam)) - 1)
  IN [n \in 1..Len(entries) |-> [entries[n] EXCEPT !.resp = Healthy(Req(entries[n].key, "no-cors"))]]

InitTrim ==
  /\ lifecycle = "activated"
  /\ skipWaiting = TRUE
  /\ preload = FALSE
  /\ task = NoTask
  /\ hs = [i \in Slots |-> Idle]
  /\ \E f \in TrimFamilies :
       /\ caches = << [name |-> PartitionOf(f), entries |-> Prefill(f)] >>
       /\ page = [ServedPage EXCEPT !.fam = f, !.issued = Len(Prefill(f)),
                                    !.log = Keys(Prefill(f))]
  /\ geo = NoGeo

NextTrim ==
  \/ \E i \in Slots : NextRequest(i)
  \/ \E i \in Slots : StOpen(i)
  \/ \E i \in Slots : StMatch(i)
  \/ \E i \in Slots : HealthyStFetch(i)
  \/ \E i \in Slots : DaOpen(i)
  \/ \E i \in Slots : HealthyDaFetch(i)
  \/ \E i \in Slots : TiOpen(i)
  \/ \E i \in Slots : TiMatch(i)
  \/ \E i \in Slots : HealthyRvFetch(i)
  \/ \E i \in Slots : TiWait(i)
  \/ \E i \in Slots : LoggedPut(i)
  \/ \E i \in Slots : TrimOpen(i)
  \/ \E i \in Slots : TrimKeys(i)
  \/ \E i \in Slots : TrimDelete(i)
  \/ \E i \in Slots : Retire(i)

SpecTrim == InitTrim /\ [][NextTrim]_vars


\* The guard of the fetch listener: next to GET requests for an asset, a
\* dataset and a tile, the page sends a POST and a Range request for the
\* same URLs.
GuardPool ==
  { Req(U("img", 1), "no-cors"), Req(U("otn", 0), "cors"), Req(U("osm", 2), "no-cors"),
    [Req(U("img", 1), "cors") EXCEPT !.method = "POST"],
    [Req(U("otn", 0), "cors") EXCEPT !.method = "POST"],
    [Req(U("osm", 2), "no-cors") EXCEPT !.range = TRUE] }

NextGuard ==
  \/ \E i \in Slots : \E req \in GuardPool : FetchEvent(i, req)
  \/ \E i \in Slots : Static(i)
  \/ \E i \in Slots : Data(i)
  \/ \E i \in Slots : Tiles(i)
  \/ \E i \in Slots : Background(i)

SpecGuard == Serving(ServeStores) /\ [][NextGuard]_vars

\* The activated worker with the network down: every fetch() rejects, or is
\* aborted by the timer; one request or more of each category.
Down == \A i \in Slots : hs[i].got = NoResp

OfflinePool ==
  { Req(U("page", 1), "navigate"), Req(U("root", 0), "cors"),
    Req(U("nominatim", 0), "cors"), Req(U("img", 1), "no-cors"),
    Req(U("otn", 0), "cors"), Req(U("dat", 1), "cors"),
    Req(U("osm", 1), "no-cors"), Req(U("osm", 2), "no-cors") }

HandlerStep(i) ==
  \/ Navigation(i)
  \/ Static(i)
  \/ Data(i)
  \/ Tiles(i)
  \/ Other(i)

NextOffline ==
  \/ \E i \in Slots : \E req \in OfflinePool : FetchEvent(i, req)
  \/ \E i \in Slots : Navigation(i) /\ Down'
  \/ \E i \in Slots : Static(i) /\ Down'
  \/ \E i \in Slots : Data(i) /\ Down'
  \/ \E i \in Slots : Tiles(i) /\ Down'
  \/ \E i \in Slots : Other(i) /\ Down'

SpecOffline == Serving(ServeStores) /\ [][NextOffline]_vars

\* The worker from its installation on, with pages posting messages to it
\* and sending navigations and requests of the category other.
MessagePool == { Req(U("root", 0), "navigate"), Req(U("nominatim", 0), "cors") }

NextLifecycle ==
  \/ Lifecycle
  \/ Message
  \/ \E i \in Slots : \E req \in MessagePool : FetchEvent(i, req)
  \/ \E i \in Slots : Navigation(i)
  \/ \E i \in Slots : Other(i)

SpecLifecycle == Init /\ [][NextLifecycle]_vars

\* The worker from its installation on, with the open pages reloading or
\* not and sending requests of the category other; clients.claim(), once
\* called, takes effect at some time.
ClaimPool == { Req(U("nominatim", 0), "cors") }

NextClaim ==
  \/ Lifecycle
  \/ \E c \in Clients : Reload(c)
  \/ \E i \in Slots : \E req \in ClaimPool : FetchEvent(i, req)
  \/ \E i \in Slots : Other(i)

SpecClaim == Init /\ [][NextClaim]_vars /\ WF_vars(ClaimClients)

\* The data strategy's handlers alone.  The network answers or not as it
\* likes; the worker's own steps (cache calls, the timer) are taken when
\* they can be.
NextTimeout ==
  \/ \E i \in Slots : \E req \in DataPool : FetchEvent(i, req)
  \/ \E i \in Slots : Data(i)

SpecTimeout ==
  /\ Serving(DataStores)
  /\ [][NextTimeout]_vars
  /\ \A i \in Slots : WF_vars(DaOpen(i)) /\ WF_vars(DaTimeout(i)) /\ WF_vars(DaMatch(i))

\* The hosts the classifier is asked about: the tile layers of the map, the
\* services the page calls, and hosts that merely contain an allow-listed
\* name.
AppTileLayers ==
  { U("osmapex", 1), U("osm", 1), U("arcgis", 1), U("lioservices", 1) }

HostPool ==
  { Req(u, "no-cors") : u \in AppTileLayers }
    \cup { Req(U(f, 1), "cors") :
             f \in {"lio", "geoservices", "unpkg", "nominatim", "cdnjs",
                    "unpkgtail", "liohead"} }
    \cup { [Req(U("osm", 1), "no-cors") EXCEPT !.range = TRUE] }

NextHosts ==
  \/ \E i \in Slots : \E req \in HostPool : FetchEvent(i, req)
  \/ \E i \in Slots : Retire(i)

SpecHosts ==
  Serving({ << [name |-> STATIC_CACHE, entries |-> ShellEntries] >> })
    /\ [][NextHosts]_vars

\* The dispatch order: URLs of every rule, and URLs that carry the
\* extensions of two rules, as navigations and as subresource requests.
PrecedenceUrls ==
  { U("index", 0), U("otn", 0), U("geojs", 0), U("jsgeo", 0), U("page", 1),
    U("osm", 1), U("nominatim", 0) }

PrecedencePool ==
  { Req(u, m) : u \in PrecedenceUrls, m \in {"navigate", "cors"} }
    \cup { [Req(U("index", 0), "navigate") EXCEPT !.method = "POST"] }

NextPrecedence ==
  \/ \E i \in Slots : \E req \in PrecedencePool : FetchEvent(i, req)
  \/ \E i \in Slots : Retire(i)

SpecPrecedence ==
  Serving({ << [name |-> STATIC_CACHE, entries |-> ShellEntries] >> })
    /\ [][NextPrecedence]_vars

\* The static strategy and the responses it can get: an asset not yet
\* cached, and an asset the server redirects elsewhere.
\* The partition stays below its limit, so every trimCache returns at line 36.
StaticTypesPool ==
  { Req(U("img", 1), "no-cors"),
    Req(U("moved", 0), "no-cors"), Req(U("moved", 0), "cors") }

NextStaticTypes ==
  \/ \E i \in Slots : \E req \in StaticTypesPool : FetchEvent(i, req)
  \/ \E i \in Slots : Static(i)
  \/ \E i \in Slots : BgPut(i)
  \/ \E i \in Slots : TrimOpen(i)
  \/ \E i \in Slots : TrimKeys(i)

SpecStaticTypes ==
  Serving({ << [name |-> STATIC_CACHE, entries |-> ShellEntries] >> })
    /\ [][NextStaticTypes]_vars

\* The scan of the other strategy.  The partitions persist from earlier runs
\* and from earlier builds that carried the same VERSION and classified the
\* search service's URL differently: its response can be found in no
\* partition, or in two of them.
SearchEntry(v) ==
  [key |-> U("nominatim", 0), resp |-> NetResp(U("nominatim", 0), TRUE, "cors", v)]

ScanStores ==
  { << [name |-> STATIC_CACHE, entries |-> ShellEntries] >>,
    << [name |-> STATIC_CACHE, entries |-> ShellEntries],
       [name |-> DATA_CACHE, entries |-> <<SearchEntry(1)>>],
       [name |-> TILE_CACHE, entries |-> <<SearchEntry(2)>>] >> }

ScanPool ==
  { Req(U("nominatim", 0), "cors"), Req(U("root", 0), "cors"), Req(U("cdnjs", 0), "cors") }

NextScan ==
  \/ \E i \in Slots : \E req \in ScanPool : FetchEvent(i, req)
  \/ \E i \in Slots : Other(i)
  \/ \E i \in Slots : Retire(i)

SpecScan == Serving(ScanStores) /\ [][NextScan]_vars

\* main: best = await geocodeWaterbody(name, orig) for the next feature
GeoCall ==
  /\ geo.pc \in {"start", "returned", "thrown"}
  /\ \E hint \in Hints : geo' = [NoGeo EXCEPT !.pc = "fetch", !.hint = hint]
  /\ UNCHANGED <<lifecycle, skipWaiting, preload, caches, task, hs, page>>

\* const res = await fetch(...); if (!res.ok) throw
GeoFetch ==
  /\ geo.pc = "fetch"
  /\ \E ok \in BOOLEAN : geo' = [geo EXCEPT !.pc = IF ok THEN "json" ELSE "thrown"]
  /\ UNCHANGED <<lifecycle, skipWaiting, preload, caches, task, hs, page>>

\* const arr = await res.json(); the rest of the function runs to its return
GeoSelect ==
  /\ geo.pc = "json"
  /\ \E arr \in Bodies :
       geo' = [geo EXCEPT !.pc = "returned", !.arr = arr, !.best = Best(arr, geo.hint)]
  /\ UNCHANGED <<lifecycle, skipWaiting, preload, caches, task, hs, page>>

\* the script has read its input file; the worker plays no part
InitGeocode ==
  /\ lifecycle = "activated"
  /\ skipWaiting = TRUE
  /\ preload = FALSE
  /\ caches = <<>>
  /\ task = NoTask
  /\ hs = [i \in Slots |-> Idle]
  /\ page = NoPage
  /\ geo = [NoGeo EXCEPT !.pc = "start"]

NextGeocode ==
  \/ GeoCall
  \/ GeoFetch
  \/ GeoSelect

SpecGeocode == InitGeocode /\ [][NextGeocode]_vars

\* ------------------------------------------------------------------------
\* Properties
\* ------------------------------------------------------------------------
Answered(i) == hs[i].pc = "done" /\ Intercepted(hs[i].req)

Is(i, cat) == hs[i].cats = <<cat>>

\* C7: a navigation request that got no preload response and whose network
\* attempt failed is answered with the static partition's index.html entry
\* when the partition holds one, and with the synthesized 503 when it does not.
NavigationFallsBackToIndex ==
  \A i \in Slots :
    (Answered(i) /\ Is(i, "navigation") /\ hs[i].netFailed # "no") =>
      IF HasKey(EntriesOf(caches, STATIC_CACHE), IndexKey)
        THEN hs[i].resp = Match(EntriesOf(caches, STATIC_CACHE), IndexKey)
        ELSE hs[i].resp = Synth503

NavigationServedIndexOffline ==
  \E i \in Slots :
    /\ Answered(i) /\ Is(i, "navigation") /\ hs[i].netFailed # "no"
    /\ hs[i].resp.kind = "net" /\ hs[i].resp.url = IndexKey

\* C8: once activation has completed, every cache that exists is one of the
\* current version's three; the caches of older versions are gone.
OnlyRetainedSurvive ==
  lifecycle = "activated" => \A n \in 1..Len(caches) : caches[n].name \in keep

\* the store that held a data cache next to an old static cache, activated
OldGenerationCollected ==
  /\ lifecycle = "activated"
  /\ HasCache(caches, DATA_CACHE)
  /\ HasCache(caches, STATIC_CACHE)
  /\ ~HasCache(caches, OLD_STATIC_CACHE)

\* C9: every intercepted request is handed to exactly one of the five
\* strategies: respondWith is called once, never twice and never not at all.
ExactlyOneStrategy ==
  \A i \in Slots :
    (hs[i].pc # "idle" /\ Intercepted(hs[i].req)) =>
      /\ Len(hs[i].cats) = 1
      /\ hs[i].cats[1] \in {"navigation", "static", "data", "tiles", "other"}

EveryStrategyDispatched ==
  /\ \E i \in Slots : Is(i, "static")
  /\ \E i \in Slots : Is(i, "other")

\* C10 as stated: two intercepted requests with the same URL are dispatched
\* to the same strategy, whatever their mode.
SameUrlSameCategory ==
  \A i, j \in Slots :
    (/\ hs[i].pc # "idle" /\ Intercepted(hs[i].req)
     /\ hs[j].pc # "idle" /\ Intercepted(hs[j].req)
     /\ hs[i].req.url = hs[j].req.url) =>
      hs[i].cats = hs[j].cats

\* C10 amended: two intercepted requests with the same URL that are both
\* navigations, or both not, are dispatched to the same strategy.
SameUrlAndNavigationSameCategory ==
  \A i, j \in Slots :
    (/\ hs[i].pc # "idle" /\ Intercepted(hs[i].req)
     /\ hs[j].pc # "idle" /\ Intercepted(hs[j].req)
     /\ hs[i].req.url = hs[j].req.url
     /\ (hs[i].req.mode = "navigate") = (hs[j].req.mode = "navigate")) =>
      hs[i].cats = hs[j].cats

SameUrlTwoModes ==
  \E i, j \in Slots :
    /\ hs[i].req.url = hs[j].req.url
    /\ hs[i].req.mode = "cors" /\ hs[j].req.mode = "no-cors"
    /\ Is(i, "static") /\ Is(j, "static")


\* the handler's cache.put has taken effect
Stored(i) ==
  /\ hs[i].bgResp # NoResp
  /\ hs[i].bg \in {"trim_open", "trim_keys", "trim_del", "done"}
  /\ ~hs[i].putFailed

\* no handler but those of `but` has stored an entry under i's key
NoOtherPut(i, but) ==
  \A c \in Slots \ but :
    ~(Stored(c) /\ hs[c].bgCache = hs[i].bgCache /\ hs[c].req.url = hs[i].req.url)

\* no trimCache has deleted i's key
NotEvicted(i) == <<hs[i].bgCache, hs[i].req.url>> \notin page.evicted

Settled(i) == hs[i].pc \in {"idle", "done"} /\ hs[i].bg \in {"none", "done"}

\* C1: a static request that arrives after a network fetch of its URL
\* succeeded with a cacheable response makes no network call, whatever the
\* progress of the earlier request's background cache write.
NoSecondNetworkCall ==
  \A i \in Slots : (Is(i, "static") /\ hs[i].after) => hs[i].netCalls = 0

\* C2: after more than maxEntries puts of distinct keys, each followed by
\* trimCache, and once every trim has completed, the partition holds exactly
\* the maxEntries keys inserted last, in their order of insertion.
TrimKeepsNewest ==
  ((\A i \in Slots : Settled(i)) /\ Len(page.log) > LIMITS(PartitionOf(page.fam))) =>
    Keys(EntriesOf(caches, PartitionOf(page.fam)))
      = SubSeq(page.log, Len(page.log) - LIMITS(PartitionOf(page.fam)) + 1, Len(page.log))

TilesTrimmedAfterOverflow ==
  /\ \A i \in Slots : Settled(i)
  /\ page.fam = "osm"
  /\ Len(page.log) = TileLimit + MaxExtra
  /\ Len(EntriesOf(caches, TILE_CACHE)) = TileLimit
  /\ ~HasKey(EntriesOf(caches, TILE_CACHE), U("osm", 1))

DataFallsBackToCache ==
  /\ [][\A i \in Slots :
          (/\ hs[i].pc = "da_match"
           /\ hs'[i].pc # "da_match"
           /\ HasKey(EntriesOf(caches, DATA_CACHE), hs[i].req.url)) =>
            /\ hs'[i].pc = "done"
            /\ hs'[i].resp = Match(EntriesOf(caches, DATA_CACHE), hs[i].req.url)
            /\ hs'[i].resp # Synth503]_vars
  /\ [](\A i \in Slots :
          (Is(i, "data") /\ hs[i].pc = "da_match") => hs[i].netFailed # "no")

DataTimeoutServedFromCache ==
  \E i \in Slots :
    /\ Is(i, "data") /\ Answered(i) /\ hs[i].netFailed = "abort" /\ hs[i].hit
    /\ hs[i].resp.kind = "net" /\ hs[i].resp.url = hs[i].req.url

\* C5: a dataset request that found no entry and got an ok response from the
\* network is answered with that response; once its background task has
\* settled (the put not having failed) the data partition holds the response
\* for as long as no trim evicts the key and no other request stores it; a
\* later request for the same URL that arrives then and whose network attempt
\* fails is answered with the same response.
DatasetStoredThenServedOffline ==
  \A a \in Slots :
    (Is(a, "data") /\ Answered(a) /\ hs[a].prior = NoResp /\ hs[a].got.ok) =>
      /\ hs[a].resp = hs[a].got
      /\ (/\ hs[a].bg \in {"none", "done"}
          /\ ~hs[a].putFailed
          /\ NoOtherPut(a, {a})
          /\ NotEvicted(a)) =>
           DataLookup(hs[a].req) = hs[a].got
      /\ \A b \in Slots :
           (/\ b > a
            /\ Is(b, "data") /\ Answered(b)
            /\ hs[b].req.url = hs[a].req.url
            /\ hs[b].netFailed # "no"
            /\ hs[b].prior = hs[a].got
            /\ NoOtherPut(a, {a, b})
            /\ NotEvicted(a)) =>
             hs[b].resp = hs[a].got

DatasetServedOfflineAfterFetch ==
  \E a, b \in Slots :
    /\ b > a
    /\ Is(a, "data") /\ Answered(a) /\ hs[a].prior = NoResp /\ hs[a].got.ok
    /\ Stored(a) /\ hs[a].bg = "done"
    /\ Is(b, "data") /\ Answered(b) /\ hs[b].req.url = hs[a].req.url
    /\ hs[b].netFailed = "error" /\ hs[b].prior = hs[a].got
    /\ hs[b].resp = hs[a].got

\* C6: a tile request whose key is cached is answered with the cached entry
\* and, once its revalidation has settled, having got an ok or opaque
\* response and stored it, and no other request having stored the key, the
\* tile partition's entry for the key is that network response.
TileEntryRefreshed ==
  \A i \in Slots :
    (/\ Is(i, "tiles") /\ hs[i].hit /\ Answered(i)
     /\ hs[i].bg = "done"
     /\ (hs[i].got.ok \/ hs[i].got.type = "opaque")
     /\ ~hs[i].putFailed
     /\ NoOtherPut(i, {i})) =>
      TileLookup(hs[i].req) = hs[i].got

\* the request is a GET without a Range header
SimpleGet(req) == req.method = "GET" /\ ~req.range

\* the step changes the partition called name by the install task's addAll:
\* the entries added are those of the app-shell URLs
WrittenByInstall(name, old, new) ==
  /\ task.pc = "inst_addall"
  /\ name = STATIC_CACHE
  /\ \A k \in 1..Len(new) :
       (\E n \in 1..Len(APP_SHELL) : APP_SHELL[n] = new[k].key)
         \/ (\E m \in 1..Len(old) : old[m] = new[k])

\* the step changes the partition called name by handler i's cache.put: the
\* entry of the request's key is the handler's response, the others stay
WrittenByHandler(i, name, old, new) ==
  /\ hs[i].bg = "put"
  /\ hs'[i].bg # "put"
  /\ hs[i].bgCache = name
  /\ Match(new, hs[i].req.url) = hs[i].bgResp
  /\ RemoveKey(new, hs[i].req.url) = RemoveKey(old, hs[i].req.url)

\* the step changes the partition called name by a cache.delete of handler
\* i's trimCache: nothing is added
TrimmedByHandler(i, name, old, new) ==
  /\ hs[i].bg = "trim_del"
  /\ hs[i].bgCache = name
  /\ \E v \in 1..Len(hs[i].victims) : new = RemoveKey(old, hs[i].victims[v])

IsEntryOf(cs, name, e) ==
  \E k \in 1..Len(EntriesOf(cs, name)) : EntriesOf(cs, name)[k] = e

\* C11: every step that changes the entries of a partition is the install
\* task's addAll (GET requests for the app-shell URLs), a cache.delete of a
\* trimCache, or the put of a handler whose request is a GET without a Range
\* header; a handler of any other request never has a put scheduled.
OnlySimpleGetStored ==
  /\ [][\A n \in 1..Len(caches') :
          caches'[n].entries # EntriesOf(caches, caches'[n].name) =>
            \/ WrittenByInstall(caches'[n].name,
                                EntriesOf(caches, caches'[n].name), caches'[n].entries)
            \/ \E i \in Slots :
                 /\ SimpleGet(hs[i].req)
                 /\ WrittenByHandler(i, caches'[n].name,
                                     EntriesOf(caches, caches'[n].name), caches'[n].entries)
            \/ \E i \in Slots :
                 TrimmedByHandler(i, caches'[n].name,
                                  EntriesOf(caches, caches'[n].name), caches'[n].entries)]_vars
  /\ [](\A i \in Slots : hs[i].bg # "none" => SimpleGet(hs[i].req))

StoredForGetNotForPost ==
  \E i, j \in Slots :
    /\ Stored(i) /\ SimpleGet(hs[i].req)
    /\ IsEntryOf(caches, hs[i].bgCache, [key |-> hs[i].req.url, resp |-> hs[i].bgResp])
    /\ hs[j].req.url = hs[i].req.url
    /\ hs[j].req.method = "POST"
    /\ hs[j].pc = "done"

\* C12: a fetch event whose request is not a GET or carries a Range header
\* is not intercepted: no strategy calls respondWith, the handler makes no
\* network call, schedules nothing and leaves the caches as they are.
NotInterceptedUntouched ==
  /\ [][\A i \in Slots :
          (hs[i].pc = "idle" /\ hs'[i].pc # "idle" /\ ~SimpleGet(hs'[i].req)) =>
            caches' = caches]_vars
  /\ [](\A i \in Slots :
          (hs[i].pc # "idle" /\ ~SimpleGet(hs[i].req)) =>
            /\ hs[i].pc = "done"
            /\ hs[i].cats = <<>>
            /\ hs[i].resp = NoResp
            /\ hs[i].netCalls = 0
            /\ hs[i].bg = "none")

RangeRequestPassedThrough ==
  \E i, j \in Slots :
    /\ hs[i].req.range /\ hs[i].pc = "done" /\ hs[i].cats = <<>>
    /\ hs[j].req.url = hs[i].req.url
    /\ SimpleGet(hs[j].req) /\ Answered(j) /\ hs[j].resp # NoResp

\* the response is one a cache holds
IsCached(resp) ==
  \E n \in 1..Len(caches) :
    \E k \in 1..Len(caches[n].entries) : caches[n].entries[k].resp = resp

\* C13: a handler whose network attempt failed (error, abort or timeout) can
\* always take its next step, and when it has completed it has resolved with
\* a cached entry or with the synthesized 503.
NetworkFailureAnswered ==
  \A i \in Slots :
    (hs[i].pc # "idle" /\ SimpleGet(hs[i].req) /\ hs[i].netFailed # "no") =>
      IF hs[i].pc = "done"
        THEN hs[i].resp = Synth503 \/ (hs[i].hit /\ IsCached(hs[i].resp))
        ELSE ENABLED HandlerStep(i)

DatasetAndTileAnsweredOffline ==
  \E i, j \in Slots :
    /\ Is(i, "data") /\ Answered(i) /\ hs[i].netFailed = "abort"
    /\ hs[i].hit /\ IsCached(hs[i].resp)
    /\ Is(j, "tiles") /\ Answered(j) /\ hs[j].netFailed = "error"
    /\ hs[j].resp = Synth503

\* some partition holds an entry for the key
CachedSomewhere(key) == \E n \in 1..Len(caches) : HasKey(caches[n].entries, key)

\* C14: a request is answered with the synthesized 503 only when the network
\* gave no response for it and no partition holds an entry for its key.
Synth503OnlyWhenNothingAvailable ==
  \A i \in Slots :
    (Answered(i) /\ hs[i].resp = Synth503) =>
      (hs[i].got = NoResp /\ ~CachedSomewhere(hs[i].req.url))

\* C15: when the fetch succeeded and the put of its response then failed,
\* a handler that had no cached entry to serve still answers with the
\* network response.
PutFailureKeepsResponse ==
  \A i \in Slots :
    (Answered(i) /\ hs[i].putFailed /\ hs[i].got # NoResp /\ ~hs[i].hit) =>
      hs[i].resp = hs[i].got

\* C16: while the put or the trim of a request is still running, the response
\* of that request has already been handed to the page.
ResponseBeforeBackgroundWrite ==
  \A i \in Slots :
    hs[i].bg \in {"put", "trim_open", "trim_keys", "trim_del"} => hs[i].pc = "done"

CountKey(entries, key) ==
  Cardinality({k \in 1..Len(entries) : entries[k].key = key})

\* this step is the cache.put of handler i taking effect
PutTakesEffect(i) ==
  /\ hs[i].bg = "put"
  /\ hs'[i].bg \in {"trim_open", "trim_keys", "done"}
  /\ ~hs'[i].putFailed

\* this step is a cache.delete of some trimCache
DeleteTakesEffect == \E j \in Slots : hs[j].bg = "trim_del" /\ hs'[j] # hs[j]

LifecycleStates == {"installing", "installed", "activating", "activated"}

LifecycleMoves ==
  { <<"installing", "installed">>, <<"installed", "activating">>,
    <<"activating", "activated">> }

InstallCompletes ==
  /\ [](lifecycle = "installing" => ENABLED (InstallEvent \/ InstallOpen \/ InstallAddAll))
  /\ [][(task.pc = "inst_addall" /\ task'.pc # "inst_addall") =>
          lifecycle' = "installed"]_vars

InstalledWithoutShell ==
  /\ lifecycle = "installed"
  /\ task.fetched # ShellFiles
  /\ ~HasKey(EntriesOf(caches, STATIC_CACHE), IndexKey)

\* C20: when some app-shell files could be fetched during install and others
\* could not, the static partition of the installed worker has an entry for
\* each file that could be fetched.
EachFetchedFileStored ==
  (lifecycle = "installed" /\ task.fetched # {} /\ task.fetched # ShellFiles) =>
    \A u \in task.fetched : HasKey(EntriesOf(caches, STATIC_CACHE), u)

\* C21: the listener calls skipWaiting() for the message 'SKIP_WAITING' and
\* for no other; a message step leaves the lifecycle state and every
\* partition as they are, and a message that is not the command leaves the
\* skip-waiting flag as it is; with the flag set an installed worker can be
\* activated.
OneMessageCommand ==
  /\ [](page.said.data # "none" =>
          (page.said.called <=> page.said.data = "SKIP_WAITING"))
  /\ [][page'.said # page.said =>
          /\ lifecycle' = lifecycle
          /\ caches' = caches
          /\ IF page'.said.called THEN skipWaiting' ELSE skipWaiting' = skipWaiting]_vars
  /\ []((lifecycle = "installed" /\ skipWaiting) => ENABLED Activate)

OtherMessageIgnoredWhileInstalled ==
  /\ lifecycle = "installed"
  /\ page.said = [data |-> "PING", called |-> FALSE]

\* C22 as stated: whenever the worker is activated, every open page is
\* controlled by it.
ControlledOnceActive ==
  lifecycle = "activated" => \A c \in Clients : Controlled(c)

\* C22, amended: the activate listener has called clients.claim() before the
\* worker is activated; the call takes effect at some time, which may be
\* after the worker is activated, and from then on every open page is
\* controlled without having reloaded, so that once activated every open
\* page comes to be controlled; a page sends requests to the fetch handler
\* only when a page is controlled.
ControlledAfterClaim ==
  /\ [](lifecycle \in {"activating", "activated"} => page.claim # "none")
  /\ [](page.claim = "done" => \A c \in Clients : Controlled(c))
  /\ [](\A i \in Slots :
          (hs[i].pc # "idle" /\ hs[i].req.mode # "navigate") =>
            \E c \in Clients : Controlled(c))
  /\ (lifecycle = "activated") ~> (\A c \in Clients : Controlled(c))

ClaimedPageRequestIntercepted ==
  /\ lifecycle = "activated"
  /\ \A c \in Clients : page.ctl[c] = "claimed"
  /\ \E i \in Slots : Answered(i) /\ hs[i].req.mode # "navigate" /\ hs[i].resp # NoResp

Untrimmed(name) ==
  {i \in Slots : /\ hs[i].bgCache = name
                 /\ hs[i].bg \in {"trim_open", "trim_keys", "trim_del"}}

DataHandlerReturns ==
  /\ \A i \in Slots : Is(i, "data") ~> Answered(i)
  /\ [](\A i \in Slots :
          (Is(i, "data") /\ Answered(i) /\ hs[i].netFailed = "abort") =>
            \/ hs[i].resp = Synth503 /\ ~hs[i].hit
            \/ hs[i].hit /\ IsCached(hs[i].resp))

TimedOutServedFromCache ==
  \E i \in Slots :
    /\ Is(i, "data") /\ Answered(i) /\ hs[i].netFailed = "abort"
    /\ hs[i].hit /\ IsCached(hs[i].resp)

\* C25: a cross-origin request that is not a navigation is handled by the
\* tile strategy exactly when its host is an allow-listed name or a
\* dot-separated subdomain of one, and the request of every tile layer of
\* the map is handled by the tile strategy.
AllowList == {OsmHost, ArcgisHost, UnpkgHost} \cup LioHosts

DotSuffix(h, name) ==
  /\ EndsWith(h, name)
  /\ \/ Len(h) = Len(name)
     \/ Len(h) > Len(name) /\ h[Len(h) - Len(name)] = "."

AllowListed(h) == \E name \in AllowList : DotSuffix(h, name)

TileHostsAreAllowList ==
  \A i \in Slots :
    (hs[i].cats # <<>> /\ hs[i].req.mode # "navigate" /\ ~isSameOrigin(hs[i].req.url)) =>
      /\ Is(i, "tiles") <=> AllowListed(Host(hs[i].req.url))
      /\ hs[i].req.url \in AppTileLayers => Is(i, "tiles")

\* C26: an intercepted navigation is handled by the navigation strategy
\* whatever its URL; any other intercepted request is handled by the first
\* of static, data, tiles whose rule its URL satisfies, and by other when it
\* satisfies none; no URL satisfies the static rule and the data rule.
ClassificationPrecedence ==
  \A i \in Slots :
    (hs[i].pc # "idle" /\ Intercepted(hs[i].req)) =>
      LET url == hs[i].req.url
          nav == hs[i].req.mode = "navigate"
      IN /\ nav => Is(i, "navigation")
         /\ (~nav /\ isStaticURL(url)) => Is(i, "static")
         /\ (~nav /\ ~isStaticURL(url) /\ isDataURL(url)) => Is(i, "data")
         /\ (~nav /\ ~isStaticURL(url) /\ ~isDataURL(url) /\ isTileOrCDN(url)) =>
              Is(i, "tiles")
         /\ (~nav /\ ~isStaticURL(url) /\ ~isDataURL(url) /\ ~isTileOrCDN(url)) =>
              Is(i, "other")
         /\ ~(isStaticURL(url) /\ isDataURL(url))

NavigationToDatasetUrl ==
  \E i, j \in Slots :
    /\ hs[i].req = Req(U("otn", 0), "navigate") /\ Is(i, "navigation")
    /\ hs[j].req = Req(U("jsgeo", 0), "cors") /\ Is(j, "data")

\* C27: a navigation handler that got a preload response returns it and
\* makes no network fetch of its own; it fetches only when navigation preload
\* gave it no response; it reads the static partition only after the network
\* attempt has failed.
PreloadThenNetworkThenCache ==
  \A i \in Slots :
    Is(i, "navigation") =>
      /\ (preload /\ hs[i].pc # "nav_preload" /\ hs[i].netFailed = "no") =>
           /\ hs[i].pc = "done"
           /\ hs[i].resp.kind = "preload" /\ hs[i].resp.url = hs[i].req.url
           /\ hs[i].netCalls = 0
      /\ (hs[i].pc = "nav_fetch" \/ hs[i].netCalls > 0) => ~preload
      /\ (hs[i].pc \in {"nav_open", "nav_match"} \/ hs[i].hit \/ hs[i].resp = Synth503) =>
           hs[i].netFailed # "no"

PreloadResponseReturned ==
  \E i \in Slots :
    /\ Is(i, "navigation") /\ Answered(i)
    /\ hs[i].resp.kind = "preload" /\ hs[i].netCalls = 0

\* C28: a static handler hands a network response to cache.put only when
\* the response is ok and of type basic or default; any other response is
\* returned as it is and the handler starts no write; every entry of the
\* static partition is an ok response of type basic or default.
StaticStoresOnlyOkBasic ==
  /\ \A i \in Slots :
       (Is(i, "static") /\ hs[i].got # NoResp) =>
         /\ hs[i].resp = hs[i].got
         /\ IF hs[i].got.ok /\ hs[i].got.type \in {"basic", "default"}
              THEN hs[i].bgResp = hs[i].got /\ hs[i].bgCache = STATIC_CACHE
              ELSE hs[i].bg = "none" /\ hs[i].bgResp = NoResp
  /\ \A k \in 1..Len(EntriesOf(caches, STATIC_CACHE)) :
       LET e == EntriesOf(caches, STATIC_CACHE)[k]
       IN e.resp.ok /\ e.resp.type \in {"basic", "default"}

RedirectedAssetNotStored ==
  \E i, j \in Slots :
    /\ Is(i, "static") /\ Answered(i) /\ hs[i].got = NetResp(U("moved", 0), TRUE, "cors", 1)
    /\ hs[i].resp = hs[i].got /\ hs[i].bg = "none"
    /\ ~HasKey(EntriesOf(caches, STATIC_CACHE), U("moved", 0))
    /\ Is(j, "static") /\ Stored(j) /\ hs[j].bg = "done"
    /\ HasKey(EntriesOf(caches, STATIC_CACHE), hs[j].req.url)

\* C29: a request of the category other whose fetch failed is answered with
\* the entry of the first partition, in the order the partitions were
\* created, that holds the request's key, and with the synthesized 503
\* exactly when no partition holds it.
OtherScanReturnsFirstMatch ==
  \A i \in Slots :
    (Is(i, "other") /\ Answered(i) /\ hs[i].netFailed # "no") =>
      LET holders == {n \in 1..Len(caches) : HasKey(caches[n].entries, hs[i].req.url)}
      IN /\ (hs[i].resp = Synth503) <=> (holders = {})
         /\ holders # {} =>
              \E n \in holders :
                /\ \A m \in holders : n <= m
                /\ hs[i].resp = Match(caches[n].entries, hs[i].req.url)

ScanPassedOverPartition ==
  \E i \in Slots :
    /\ Is(i, "other") /\ Answered(i) /\ hs[i].netFailed # "no"
    /\ hs[i].resp = SearchEntry(1).resp
    /\ ~HasKey(caches[1].entries, hs[i].req.url)
    /\ HasKey(EntriesOf(caches, TILE_CACHE), hs[i].req.url)

\* C30: geocodeWaterbody returns null when the service gave no candidates;
\* otherwise it returns a candidate whose score (2 for a preferred
\* class:type, plus 2 within 500 m or 1 within 2 km of the hint) is at least
\* the score of every other candidate, and the earliest such candidate.
ClaimedScore(c, hint) ==
  (IF c.key \in PREFERRED THEN 2 ELSE 0)
    + (IF hint = "point" /\ c.d # NaN /\ c.d < 500 THEN 2
       ELSE IF hint = "point" /\ c.d # NaN /\ c.d < 2000 THEN 1
       ELSE 0)

TopScoringCandidateReturned ==
  geo.pc = "returned" =>
    LET items == geo.arr.items
    IN IF Len(items) = 0
         THEN geo.best = Null
         ELSE \E n \in 1..Len(items) :
                /\ geo.best.osm_id = n
                /\ geo.best._key = items[n].key
                /\ geo.best._score = ClaimedScore(items[n], geo.hint)
                /\ \A m \in 1..Len(items) :
                     /\ ClaimedScore(items[m], geo.hint) <= ClaimedScore(items[n], geo.hint)
                     /\ m < n =>
                          ClaimedScore(items[m], geo.hint) < ClaimedScore(items[n], geo.hint)

NearerCandidateBeatsEarlierOne ==
  /\ geo.pc = "returned"
  /\ Len(geo.arr.items) = MaxCandidates
  /\ geo.best.osm_id = 2
  /\ geo.best._score = 3
  /\ geo.arr.items[1].key \in PREFERRED
  /\ geo.arr.items[3].key \in PREFERRED /\ geo.arr.items[3].d = 1999

OverLimitOldest(entries, maxEntries) ==
  { entries[k].key : k \in 1..(Len(entries) - maxEntries) }

\* the keys a step removed from a partition
Removed(old, new) ==
  { old[k].key : k \in 1..Len(old) } \ { new[k].key : k \in 1..Len(new) }

\* C32: every step in which a partition of the worker loses an entry removes
\* only keys that are, at that moment, among the oldest entries beyond the
\* partition's maxEntries: trimCache deletes no entry written after it read
\* its key list and brings no partition below maxEntries.
EvictionRemovesOldestOverLimit ==
  [][\A name \in {STATIC_CACHE, DATA_CACHE, TILE_CACHE} :
       Len(EntriesOf(caches', name)) < Len(EntriesOf(caches, name)) =>
         Removed(EntriesOf(caches, name), EntriesOf(caches', name))
           \subseteq OverLimitOldest(EntriesOf(caches, name), LIMITS(name))]_vars

\* C33: once the activate task has deleted the stale partitions and finished,
\* no step of a request handler (the scan of the strategy other opening the
\* names it enumerated, the navigation fallback opening the static partition)
\* leaves a partition outside the retained set in existence.
HandlersReviveNoStalePartition ==
  [][(lifecycle = "activated" /\ hs' # hs) =>
       \A n \in 1..Len(caches') : caches'[n].name \in keep]_vars

\* an old generation was collected, and afterwards a request of the category
\* other has scanned the partitions, opening each name it enumerated
ScannedAfterCollection ==
  /\ lifecycle = "activated"
  /\ HasCache(caches, DATA_CACHE)
  /\ HasCache(caches, STATIC_CACHE)
  /\ ~HasCache(caches, OLD_STATIC_CACHE)
  /\ \E i \in Slots :
       /\ hs[i].cats = <<"other">>
       /\ hs[i].netFailed # "no"
       /\ hs[i].pc = "ot_match"
       /\ Len(hs[i].scan) = 1

\* C34: no step taken while the worker is activating changes a partition of
\* the retained set: each one exists after the step exactly if it existed
\* before, with the same entries in the same order.
ActivationKeepsRetainedPartitions ==
  [][lifecycle = "activating" =>
       \A name \in keep :
         /\ HasCache(caches', name) = HasCache(caches, name)
         /\ EntriesOf(caches', name) = EntriesOf(caches, name)]_vars

\* activation has deleted the old generation's partition, and the data
\* partition an earlier build had written still holds its two entries
DataPartitionSurvivedActivation ==
  /\ lifecycle = "activated"
  /\ ~HasCache(caches, OLD_STATIC_CACHE)
  /\ EntriesOf(caches, DATA_CACHE) = Filled("dat", 1, 2)
  /\ \A i \in Slots : hs[i].pc = "idle"

\* C35: with the app shell stored by install and the network down, a GET for
\* an app-shell URL is answered with the entry install stored for that URL
\* and not with the synthesized 503, whatever its category.
ShellAnsweredOffline ==
  \A i \in Slots :
    (/\ Answered(i) /\ SimpleGet(hs[i].req)
     /\ hs[i].req.url \in ShellFiles
     /\ hs[i].netFailed # "no") =>
      /\ hs[i].resp # Synth503
      /\ hs[i].resp = Match(ShellEntries, hs[i].req.url)

\* no other handler has stored the key of handler i in the data partition
\* and no trimCache has deleted it
DataKeyLeftAlone(i) ==
  /\ \A c \in Slots \ {i} :
       ~(Stored(c) /\ hs[c].bgCache = DATA_CACHE /\ hs[c].req.url = hs[i].req.url)
  /\ <<DATA_CACHE, hs[i].req.url>> \notin page.evicted

\* C36: a data request whose fetch gave a response that is neither ok nor
\* opaque is answered with that response, not with a cached entry; the
\* handler schedules no put, and the data partition's entry for the key is
\* what it was when the request arrived.
ErrorStatusReturnedNotStored ==
  \A i \in Slots :
    (/\ Is(i, "data")
     /\ hs[i].got # NoResp
     /\ ~(hs[i].got.ok \/ hs[i].got.type = "opaque")) =>
      /\ hs[i].pc = "done"
      /\ hs[i].resp = hs[i].got
      /\ ~hs[i].hit
      /\ hs[i].bg = "none"
      /\ hs[i].bgResp = NoResp
      /\ DataKeyLeftAlone(i) => DataLookup(hs[i].req) = hs[i].prior

\* a dataset that is cached, requested, and answered with the error status
\* the server gave, the cached entry still in place
ErrorStatusReturnedDespiteCachedEntry ==
  \E i \in Slots :
    /\ Is(i, "data") /\ Answered(i)
    /\ hs[i].prior # NoResp
    /\ hs[i].got # NoResp /\ ~hs[i].got.ok /\ hs[i].got.type = "basic"
    /\ hs[i].resp = hs[i].got
    /\ DataLookup(hs[i].req) = hs[i].prior

\* C37: no partition holds the synthesized 503 response, and no handler has
\* handed it to cache.put.
Synth503NeverStored ==
  /\ \A n \in 1..Len(caches) :
       \A k \in 1..Len(caches[n].entries) : caches[n].entries[k].resp.kind # "synth"
  /\ \A i \in Slots : hs[i].bgResp.kind # "synth"

\* an asset and a tile, neither cached, were answered with the synthesized
\* 503; everything has settled and neither partition has an entry for them
OfflineAnswersLeftNoEntry ==
  \E i, j \in Slots :
    /\ Is(i, "static") /\ Answered(i) /\ hs[i].resp = Synth503
    /\ Is(j, "tiles") /\ Answered(j) /\ hs[j].resp = Synth503
    /\ Settled(i) /\ Settled(j)
    /\ StaticLookup(hs[i].req) = NoResp
    /\ TileLookup(hs[j].req) = NoResp

\* the step leaves every entry of every partition as it was; a partition it
\* created is empty
EntriesUntouched ==
  /\ Len(caches') >= Len(caches)
  /\ \A n \in 1..Len(caches) : caches'[n] = caches[n]
  /\ \A n \in (Len(caches) + 1)..Len(caches') : caches'[n].entries = <<>>

\* C38: no step of a navigation handler or of a handler of the category
\* other adds, replaces or removes an entry of any partition, whether its
\* network attempt succeeded or failed.
NavigationAndOtherOnlyRead ==
  [][\A i \in Slots :
       (/\ hs'[i] # hs[i]
        /\ hs[i].cats \in {<<"navigation">>, <<"other">>}) => EntriesUntouched]_vars

\* a navigation answered from the cached index.html after its fetch failed,
\* and a request of the category other answered by the network
NavigationFellBackOtherFetched ==
  \E i, j \in Slots :
    /\ Is(i, "navigation") /\ Answered(i) /\ hs[i].netFailed # "no" /\ hs[i].hit
    /\ Is(j, "other") /\ Answered(j) /\ hs[j].got # NoResp /\ hs[j].resp = hs[j].got

====
